---- MODULE Spec2Model ----
(***************************************************************************)
(* RepositoryReturn (the tri-state Outcome: none / failure / success) and  *)
(* AsyncRepositoryReturn (a promise of a RepositoryReturn).                *)
(*                                                                         *)
(* JavaScript values are records with a kind field k; a RepositoryReturn   *)
(* is the record [k |-> "rr", _tag, value].  Functions handed to the       *)
(* library (handlers) are records [kind, v]; Apply runs one and yields a   *)
(* completion: [type |-> "return" | "throw", v, calls], calls being the    *)
(* invocations of caller-supplied functions it made, in order.             *)
(***************************************************************************)
EXTENDS Integers, Sequences, FiniteSets, TLC

\* The field names of the records of this module, in the order every record
\* below lists its fields (the order in which TLC keeps them).
FieldOrder ==
    [k |-> 0, n |-> 0, b |-> 0, s |-> 0, id |-> 0, els |-> 0, _tag |-> 0,
     value |-> 0, type |-> 0, kind |-> 0, v |-> 0, how |-> 0, settled |-> 0,
     state |-> 0, plan |-> 0, calls |-> 0, invoked |-> 0, func |-> 0,
     onNone |-> 0, onFailure |-> 0, onSuccess |-> 0, index |-> 0,
     fn |-> 0, slot |-> 0, op |-> 0, recv |-> 0, args |-> 0, c |-> 0,
     arg |-> 0, on |-> 0, onFulfilled |-> 0, onRejected |-> 0, target |-> 0,
     result |-> 0, promises |-> 0, reactions |-> 0, jobs |-> 0, hcalls |-> 0,
     m |-> 0, remaining |-> 0, values |-> 0, called |-> 0]

VARIABLES
    rr,         \* Spec: the RepositoryReturn the next operation is applied to
    last,       \* Spec: the last operation: receiver, arguments, completion
    nops,       \* Spec: number of operations applied so far
    promises,   \* the promises created so far: promises[p] is [v, state, plan]
    reactions,  \* the reactions registered on promises that are still pending
    jobs,       \* the microtask queue: reaction jobs, first in first out
    hcalls,     \* the calls of caller-supplied functions made by jobs, in order
    aops,       \* the operations called on AsyncRepositoryReturns, in order
    settles,    \* the promises settled from outside the library, in order
    heap        \* SpecHeap: the objects allocated so far, heap[id] being the object id

(***************************************************************************)
(* Bounds                                                                  *)
(***************************************************************************)
MaxNum == 1     \* numbers are 0..MaxNum
MaxLen == 2     \* arrays given as input hold at most MaxLen elements
MaxDepth == 2    \* RepositoryReturns are nested in one another at most MaxDepth deep
MaxOps == 2     \* operations applied in a row to one RepositoryReturn
NumInputs == 2  \* all is given at most NumInputs arguments
MaxAsyncOps == 1    \* operations called on AsyncRepositoryReturns in one run
MaxObservations == 2    \* operations called on one and the same AsyncRepositoryReturn

(***************************************************************************)
(* JavaScript values                                                       *)
(***************************************************************************)
Null == [k |-> "null"]
Undefined == [k |-> "undefined"]
Num(n) == [k |-> "number", n |-> n]
Bool(b) == [k |-> "boolean", b |-> b]
Str(s) == [k |-> "string", s |-> s]
Err(id) == [k |-> "error", id |-> id]
Arr(els) == [k |-> "array", els |-> els]

\* ToBoolean: null, undefined, 0, false and "" are falsy, every object truthy
Truthy(v) ==
    CASE v.k \in {"null", "undefined"} -> FALSE
      [] v.k = "number" -> v.n # 0
      [] v.k = "boolean" -> v.b
      [] v.k = "string" -> v.s # ""
      [] OTHER -> TRUE

\* the typeof operator
TypeOf(v) ==
    CASE v.k = "undefined" -> "undefined"
      [] v.k \in {"number", "boolean", "string"} -> v.k
      [] OTHER -> "object"

IsArray(v) == v.k = "array"
InstanceOfError(v) == v.k = "error"

(***************************************************************************)
(* RepositoryReturn: constructors                                          *)
(***************************************************************************)
RepositorySuccess(value) ==
    [k |-> "rr", _tag |-> "success",
     value |-> IF IsArray(value) THEN value ELSE Arr(<<value>>)]

RepositoryFailure(value) == [k |-> "rr", _tag |-> "failure", value |-> value]

RepositoryNone == [k |-> "rr", _tag |-> "none", value |-> Null]

\* a constructor that keeps a bare value as it is
repositorySuccess_bare(s) == [k |-> "rr", _tag |-> "success", value |-> s]

repositorySuccess(s) == RepositorySuccess(s)
repositoryFailure(f) == RepositoryFailure(f)
repositoryNone == RepositoryNone

isSuccess(this) == this._tag = "success"
isFailure(this) == this._tag = "failure"
isNone(this) == this._tag = "none"

(***************************************************************************)
(* isRR and unionResolve                                                   *)
(***************************************************************************)
\* an isRR that does not know the none tag
isRR_noNone(obj) ==
    /\ obj.k \notin {"null", "undefined"}
    /\ Truthy(obj)
    /\ TypeOf(obj) = "object"
    /\ "_tag" \in DOMAIN obj
    /\ obj._tag \in {"success", "failure"}

isRR(obj) ==
    /\ obj.k \notin {"null", "undefined"}
    /\ Truthy(obj)
    /\ TypeOf(obj) = "object"
    /\ "_tag" \in DOMAIN obj
    /\ obj._tag \in {"success", "failure", "none"}

unionResolve_zeroIsAbsent(obj) ==
    IF isRR(obj) THEN obj
    ELSE IF Truthy(obj) /\ (~IsArray(obj) \/ 0 < Len(obj.els))
         THEN IF InstanceOfError(obj) THEN repositoryFailure(obj)
                                      ELSE repositorySuccess(obj)
         ELSE repositoryNone

unionResolve(obj) ==
    IF isRR(obj) THEN obj
    ELSE IF (Truthy(obj) \/ "number" = TypeOf(obj))
            /\ (~IsArray(obj) \/ 0 < Len(obj.els))
         THEN IF InstanceOfError(obj) THEN repositoryFailure(obj)
                                      ELSE repositorySuccess(obj)
         ELSE repositoryNone

(***************************************************************************)
(* Completions and the functions callers hand to the library               *)
(***************************************************************************)
Ret(v) == [type |-> "return", v |-> v, calls |-> <<>>]
Thr(v) == [type |-> "throw", v |-> v, calls |-> <<>>]
Logged(c, calls) == [type |-> c.type, v |-> c.v, calls |-> calls]

Const(v) == [kind |-> "const", v |-> v]         \* () => v
Throw(v) == [kind |-> "throw", v |-> v]         \* () => { throw v }
Identity == [kind |-> "identity", v |-> Null]   \* x => x
Length == [kind |-> "length", v |-> Null]       \* xs => xs.length
Inc == [kind |-> "inc", v |-> Null]             \* x => typeof x == "number" ? x + 1 : x
IsPositive == [kind |-> "isPositive", v |-> Null] \* x => typeof x == "number" && x > 0

Arg(args, i) == IF i <= Len(args) THEN args[i] ELSE Undefined

\* a call of a caller-supplied function with the argument list args
ApplyUser(h, args) ==
    LET x == Arg(args, 1)
        c == CASE h.kind = "const" -> Ret(h.v)
               [] h.kind = "throw" -> Thr(h.v)
               [] h.kind = "identity" -> Ret(x)
               [] h.kind = "length" ->
                    Ret(IF IsArray(x) THEN Num(Len(x.els)) ELSE Undefined)
               [] h.kind = "inc" ->
                    Ret(IF x.k = "number" THEN Num(x.n + 1) ELSE x)
               [] h.kind = "isPositive" ->
                    Ret(Bool(x.k = "number" /\ x.n > 0))
    IN  Logged(c, <<[fn |-> h, args |-> args]>>)

\* Array.prototype.map: func(el, index, array) on every element in order;
\* an exception thrown by func ends the loop and propagates
RECURSIVE MapLoop(_, _, _, _, _)
MapLoop(func, arr, i, acc, calls) ==
    IF i > Len(arr.els) THEN Logged(Ret(Arr(acc)), calls)
    ELSE LET c == ApplyUser(func, <<arr.els[i], Num(i - 1), arr>>)
         IN  IF c.type = "throw" THEN Logged(c, calls \o c.calls)
             ELSE MapLoop(func, arr, i + 1, Append(acc, c.v), calls \o c.calls)

\* a map that stops after the first element
ArrayMap_firstOnly(arr, func) ==
    MapLoop(func, Arr(IF arr.els = <<>> THEN <<>> ELSE <<arr.els[1]>>), 1, <<>>, <<>>)

ArrayMap(arr, func) == MapLoop(func, arr, 1, <<>>, <<>>)

\* Array.prototype.filter: keeps the elements for which func returns a truthy value
RECURSIVE FilterLoop(_, _, _, _, _)
FilterLoop(func, arr, i, acc, calls) ==
    IF i > Len(arr.els) THEN Logged(Ret(Arr(acc)), calls)
    ELSE LET c == ApplyUser(func, <<arr.els[i], Num(i - 1), arr>>)
         IN  IF c.type = "throw" THEN Logged(c, calls \o c.calls)
             ELSE FilterLoop(func, arr, i + 1,
                             IF Truthy(c.v) THEN Append(acc, arr.els[i]) ELSE acc,
                             calls \o c.calls)

\* a filter that keeps every element
ArrayFilter_keepAll(arr, func) == Ret(arr)

ArrayFilter(arr, func) == FilterLoop(func, arr, 1, <<>>, <<>>)

\* the functions the map family hands to match
RepositoryNoneFn == [kind |-> "repositoryNone", v |-> Null]
RepositoryFailureFn == [kind |-> "repositoryFailure", v |-> Null]
RepositorySuccessFn == [kind |-> "repositorySuccess", v |-> Null]
MapElementsFn(func) == [kind |-> "mapElements", v |-> Null, func |-> func]
MapFirstFn(func) == [kind |-> "mapFirst", v |-> Null, func |-> func]
FilterFn(func) == [kind |-> "filter", v |-> Null, func |-> func]

\* s => repositorySuccess(s.map(func))
mapElementsBody(func, s) ==
    LET m == ArrayMap(s, func)
    IN  IF m.type = "throw" THEN m ELSE Logged(Ret(repositorySuccess(m.v)), m.calls)

mapFirstBody_wrapped(func, s) ==
    IF Len(s.els) > 0
    THEN Logged(Ret(repositorySuccess(ApplyUser(func, <<s.els[1]>>).v)),
                ApplyUser(func, <<s.els[1]>>).calls)
    ELSE Ret(Arr(<<>>))

\* s => s.length > 0 ? func(s[0]) : []
mapFirstBody(func, s) ==
    IF Len(s.els) > 0 THEN ApplyUser(func, <<s.els[1]>>) ELSE Ret(Arr(<<>>))

\* s => s.filter(func)
filterBody(func, s) == ArrayFilter(s, func)

\* a call of any function the library calls as a match handler
Apply(h, args) ==
    CASE h.kind = "repositoryNone" -> Ret(repositoryNone)
      [] h.kind = "repositoryFailure" -> Ret(repositoryFailure(Arg(args, 1)))
      [] h.kind = "repositorySuccess" -> Ret(repositorySuccess(Arg(args, 1)))
      [] h.kind = "mapElements" -> mapElementsBody(h.func, Arg(args, 1))
      [] h.kind = "mapFirst" -> mapFirstBody(h.func, Arg(args, 1))
      [] h.kind = "filter" -> filterBody(h.func, Arg(args, 1))
      [] OTHER -> ApplyUser(h, args)

(***************************************************************************)
(* BaseRepositoryReturn: match and the operations built on it.  The result *)
(* of an operation is a completion with one more field, invoked: the match *)
(* handlers that were called, as [slot, args].                             *)
(***************************************************************************)
Invoked(c, slot, args) ==
    [type |-> c.type, v |-> c.v, calls |-> c.calls,
     invoked |-> <<[slot |-> slot, args |-> args]>>]

\* return unionResolve(handler(...args)), one case of the switch
matchCase(slot, handler, args) ==
    LET c == Apply(handler, args)
    IN  Invoked(IF c.type = "throw" THEN c
                ELSE Logged(Ret(unionResolve(c.v)), c.calls), slot, args)

matchSwitch_failureToNone(this, onNone, onFailure, onSuccess) ==
    CASE this._tag = "none" -> matchCase("onNone", onNone, <<>>)
      [] this._tag = "success" -> matchCase("onSuccess", onSuccess, <<this.value>>)
      [] this._tag = "failure" -> matchCase("onNone", onNone, <<>>)

matchSwitch(this, onNone, onFailure, onSuccess) ==
    CASE this._tag = "none" -> matchCase("onNone", onNone, <<>>)
      [] this._tag = "success" -> matchCase("onSuccess", onSuccess, <<this.value>>)
      [] this._tag = "failure" -> matchCase("onFailure", onFailure, <<this.value>>)

matchCatch_rethrow(c) == c

\* catch (err) { return repositoryFailure(err) }
matchCatch(c) ==
    IF c.type = "throw"
    THEN [type |-> "return", v |-> repositoryFailure(c.v),
          calls |-> c.calls, invoked |-> c.invoked]
    ELSE c

match(this, onNone, onFailure, onSuccess) ==
    matchCatch(matchSwitch(this, onNone, onFailure, onSuccess))

mapSuccess(this, func) == match(this, RepositoryNoneFn, RepositoryFailureFn, func)

map(this, func) == mapSuccess(this, func)

mapFailure(this, func) == match(this, RepositoryNoneFn, func, RepositorySuccessFn)

mapNone(this, func) == match(this, func, RepositoryFailureFn, RepositorySuccessFn)

mapElements(this, func) ==
    match(this, RepositoryNoneFn, RepositoryFailureFn, MapElementsFn(func))

mapFirst(this, func) ==
    match(this, RepositoryNoneFn, RepositoryFailureFn, MapFirstFn(func))

filter(this, func) ==
    match(this, RepositoryNoneFn, RepositoryFailureFn, FilterFn(func))

\* noneAsFailure that converts the receiver whatever its state
noneAsFailure_always(this, value) == repositoryFailure(value)

noneAsFailure(this, value) == IF isNone(this) THEN repositoryFailure(value) ELSE this

noneAsSuccess(this, value) == IF isNone(this) THEN repositorySuccess(value) ELSE this

failureAsNone(this) == IF isFailure(this) THEN repositoryNone ELSE this

\* flatten(): the value that is itself a RepositoryReturn is flattened in
\* turn, any other value is wrapped again under the tag of the receiver
RECURSIVE flatten(_)
flatten(this) ==
    IF isRR(this.value) THEN flatten(this.value)
    ELSE IF isSuccess(this) THEN repositorySuccess(this.value)
    ELSE IF isNone(this) THEN repositoryNone
    ELSE repositoryFailure(this.value)

\* args.map((el) => el.isSuccess()).reduce((p, c) => p && c, true)
allSuccess(args) == \A i \in DOMAIN args : isSuccess(args[i])

\* RepositoryReturnUtils.all(...args)(onFailure, onSuccess): the handler is
\* called with the RepositoryReturns themselves and what it returns, or
\* throws, is the outcome of the call
all(args, onFailure, onSuccess) ==
    IF allSuccess(args) THEN ApplyUser(onSuccess, args) ELSE ApplyUser(onFailure, args)

(***************************************************************************)
(* Inputs                                                                  *)
(***************************************************************************)
RECURSIVE SeqsUpTo(_, _)
SeqsUpTo(S, n) ==
    IF n = 0 THEN {<<>>}
    ELSE LET shorter == SeqsUpTo(S, n - 1)
         IN  shorter \cup {Append(q, x) : q \in {t \in shorter : Len(t) = n - 1}, x \in S}

Numbers == {Num(n) : n \in 0..MaxNum}
Errors == {Err("E"), Err("E2")}
Scalars == Numbers \cup {Bool(FALSE), Bool(TRUE), Str(""), Str("a")}
Arrays == {Arr(q) : q \in SeqsUpTo(Numbers, MaxLen)}

\* what a caller can build with repositoryNone, repositoryFailure, repositorySuccess
Constructed ==
    {repositoryNone}
        \cup {repositoryFailure(e) : e \in Errors}
        \cup {repositorySuccess(s) : s \in Arrays \cup Scalars}

RawValues == {Null, Undefined} \cup Errors \cup Scalars \cup Arrays \cup Constructed

Thrown == {Err("boom"), Num(0)}

MatchHandlers ==
    {Const(v) : v \in {Num(0), Arr(<<>>), Err("E2")}} \cup {Throw(Err("boom"))}

MapFuncs ==
    MatchHandlers
        \cup {Const(repositorySuccess(Num(1))), Const(Bool(FALSE)), Identity, Length}
        \cup {Throw(t) : t \in Thrown}
ElementFuncs == {Identity, Inc, Const(Bool(FALSE)), Const(Err("E2"))}
                    \cup {Throw(t) : t \in Thrown}
Predicates == {IsPositive, Identity, Const(Bool(TRUE))} \cup {Throw(t) : t \in Thrown}

(***************************************************************************)
(* Spec: operations applied, one after the other, to a RepositoryReturn    *)
(***************************************************************************)
NoCompletion == [type |-> "none", v |-> Null, calls |-> <<>>, invoked |-> <<>>]
Plain(v) == [type |-> "return", v |-> v, calls |-> <<>>, invoked |-> <<>>]

asyncVars == <<promises, reactions, jobs, hcalls, aops, settles>>
syncVars == <<rr, last, nops>>

NoAsync ==
    /\ promises = <<>>
    /\ reactions = <<>>
    /\ jobs = <<>>
    /\ hcalls = <<>>
    /\ aops = <<>>
    /\ settles = <<>>
    /\ heap = <<>>

Init ==
    /\ rr \in Constructed
    /\ last = [op |-> "new", recv |-> Null, args |-> <<>>, c |-> NoCompletion]
    /\ nops = 0
    /\ NoAsync

\* the operation op(args) completed with c on the receiver recv; an operation
\* that returned hands its result to the next one
Applied(op, recv, args, c) ==
    /\ nops < MaxOps
    /\ nops' = nops + 1
    /\ last' = [op |-> op, recv |-> recv, args |-> args, c |-> c]
    /\ rr' = IF c.type = "return" THEN c.v ELSE rr
    /\ UNCHANGED <<heap, asyncVars>>

UnionResolve ==
    \E x \in RawValues : Applied("unionResolve", Null, <<x>>, Plain(unionResolve(x)))

Match ==
    \E onNone \in MatchHandlers, onFailure \in MatchHandlers, onSuccess \in MatchHandlers :
        Applied("match", rr, <<onNone, onFailure, onSuccess>>,
                match(rr, onNone, onFailure, onSuccess))

Map == \E func \in MapFuncs : Applied("map", rr, <<func>>, map(rr, func))

MapSuccess ==
    \E func \in MapFuncs : Applied("mapSuccess", rr, <<func>>, mapSuccess(rr, func))

MapFailure ==
    \E func \in MapFuncs : Applied("mapFailure", rr, <<func>>, mapFailure(rr, func))

MapNone == \E func \in MapFuncs : Applied("mapNone", rr, <<func>>, mapNone(rr, func))

MapElements ==
    \E func \in ElementFuncs :
        Applied("mapElements", rr, <<func>>, mapElements(rr, func))

MapFirst ==
    \E func \in ElementFuncs : Applied("mapFirst", rr, <<func>>, mapFirst(rr, func))

Filter == \E func \in Predicates : Applied("filter", rr, <<func>>, filter(rr, func))

NoneAsFailure ==
    \E value \in Errors :
        Applied("noneAsFailure", rr, <<value>>, Plain(noneAsFailure(rr, value)))

NoneAsSuccess ==
    \E value \in Arrays :
        Applied("noneAsSuccess", rr, <<value>>, Plain(noneAsSuccess(rr, value)))

FailureAsNone == Applied("failureAsNone", rr, <<>>, Plain(failureAsNone(rr)))

Next ==
    \/ UnionResolve
    \/ Match
    \/ Map
    \/ MapSuccess
    \/ MapFailure
    \/ MapNone
    \/ MapElements
    \/ MapFirst
    \/ Filter
    \/ NoneAsFailure
    \/ NoneAsSuccess
    \/ FailureAsNone

vars == <<rr, last, nops, promises, reactions, jobs, hcalls, aops, settles, heap>>

Spec == Init /\ [][Next]_vars

(***************************************************************************)
(* Claims about the synchronous RepositoryReturn, checked under Spec       *)
(***************************************************************************)
Absent(x) == x.k \in {"null", "undefined"}
EmptySequence(x) == IsArray(x) /\ Len(x.els) = 0

\* C1: unionResolve(x) returns x itself when x is a RepositoryReturn, Failure(x)
\* when x is an error, None if and only if x is null/absent or an empty
\* sequence, and otherwise Success: a non-empty sequence kept as is, any other
\* bare value v (zero included) wrapped as [v].
C1_UnionResolveClassifies ==
    last.op = "unionResolve" =>
        LET x == last.args[1]
            r == last.c.v
        IN  /\ isRR(x) => r = x
            /\ (~isRR(x) /\ InstanceOfError(x)) => r = repositoryFailure(x)
            /\ ~isRR(x) => (isNone(r) <=> (Absent(x) \/ EmptySequence(x)))
            /\ (~isRR(x) /\ ~InstanceOfError(x) /\ ~Absent(x) /\ ~EmptySequence(x)) =>
                    /\ isSuccess(r)
                    /\ r.value = IF IsArray(x) THEN x ELSE Arr(<<x>>)

MatchOps ==
    {"match", "map", "mapSuccess", "mapFailure", "mapNone",
     "mapElements", "mapFirst", "filter"}

\* the handler match must select for the receiver this, and its arguments
SlotOf(this) ==
    CASE isNone(this) -> "onNone"
      [] isFailure(this) -> "onFailure"
      [] isSuccess(this) -> "onSuccess"
HandlerOf(this, hs) ==
    CASE isNone(this) -> hs[1]
      [] isFailure(this) -> hs[2]
      [] isSuccess(this) -> hs[3]
PayloadOf(this) == IF isNone(this) THEN <<>> ELSE <<this.value>>

\* C2: match invokes exactly one handler, the one of the receiver's tag, with
\* no argument for None, the error for Failure and the whole sequence for
\* Success, never the other two, and returns unionResolve of what it returned.
C2_MatchDispatch ==
    last.op = "match" =>
        LET this == last.recv
            h == HandlerOf(this, last.args)
            args == PayloadOf(this)
            ran == ApplyUser(h, args)
        IN  /\ last.c.invoked = <<[slot |-> SlotOf(this), args |-> args]>>
            /\ last.c.calls = <<[fn |-> h, args |-> args]>>
            /\ ran.type = "return" =>
                    /\ last.c.type = "return"
                    /\ last.c.v = unionResolve(ran.v)

C2_Witness ==
    /\ last.op = "match"
    /\ isFailure(last.recv)
    /\ last.args[2] = Const(Num(0))
    /\ last.args[1] # last.args[2]
    /\ last.c.v = repositorySuccess(Arr(<<Num(0)>>))

\* the last call of a caller-supplied function an operation made threw
LastCallThrew(c) ==
    /\ c.calls # <<>>
    /\ LET call == c.calls[Len(c.calls)]
       IN  ApplyUser(call.fn, call.args).type = "throw"
ThrownBy(c) ==
    LET call == c.calls[Len(c.calls)] IN ApplyUser(call.fn, call.args).v

\* C3: for every state of the receiver, when a handler throws, match and the
\* operations built on it return Failure carrying the thrown value; no
\* exception escapes them.
C3_MatchCatchesThrow ==
    last.op \in MatchOps =>
        /\ last.c.type = "return"
        /\ LastCallThrew(last.c) => last.c.v = repositoryFailure(ThrownBy(last.c))

C3_Witness ==
    /\ last.op = "mapElements"
    /\ isSuccess(last.recv)
    /\ Len(last.recv.value.els) = 2
    /\ last.args[1] = Throw(Num(0))
    /\ last.c.type = "return"
    /\ last.c.v = repositoryFailure(Num(0))

(***************************************************************************)
(* Promises.  A machine M is the record [promises, reactions, jobs,        *)
(* hcalls]; the operators below take one and yield the next.  A promise is *)
(* [v, state, plan]: plan says how a promise that the library does not     *)
(* settle itself (a wrapped computation, a deferred value returned by a    *)
(* handler) will settle.  Resolving a promise with another promise makes   *)
(* it follow that one; an async function settles the promise it returned   *)
(* with the completion of its body.                                        *)
(***************************************************************************)
PromiseValue(p) == [k |-> "promise", id |-> p]
IsPromise(x) == x.k = "promise"
NoPlan == [v |-> Null, how |-> "none"]
Plan(how, v) == [v |-> v, how |-> how]
SettledAs(how) == IF how = "fulfil" THEN "fulfilled" ELSE "rejected"

Machine ==
    [promises |-> promises, reactions |-> reactions, jobs |-> jobs, hcalls |-> hcalls]

NewPromise(M, v, state, plan) ==
    [M EXCEPT !.promises = Append(@, [v |-> v, state |-> state, plan |-> plan])]
LastId(M) == Len(M.promises)

JobOf(r, state, v) ==
    [fn |-> IF state = "fulfilled" THEN r.onFulfilled ELSE r.onRejected,
     arg |-> v, target |-> r.target]

RECURSIVE JobsOf(_, _, _, _)
JobsOf(rs, p, state, v) ==
    IF rs = <<>> THEN <<>>
    ELSE IF Head(rs).on = p
         THEN <<JobOf(Head(rs), state, v)>> \o JobsOf(Tail(rs), p, state, v)
         ELSE JobsOf(Tail(rs), p, state, v)

\* settle p (a promise settles once) and queue the jobs of its reactions
SettlePromise(M, p, state, v) ==
    IF M.promises[p].state # "pending" THEN M
    ELSE [M EXCEPT !.promises[p] = [v |-> v, state |-> state, plan |-> @.plan],
                   !.reactions = SelectSeq(@, LAMBDA r : r.on # p),
                   !.jobs = @ \o JobsOf(M.reactions, p, state, v)]

\* register a reaction on p that settles target; on a settled p its job is queued
Subscribe(M, p, onFulfilled, onRejected, target) ==
    LET r == [on |-> p, onFulfilled |-> onFulfilled, onRejected |-> onRejected,
              target |-> target]
    IN  IF M.promises[p].state = "pending"
        THEN [M EXCEPT !.reactions = Append(@, r)]
        ELSE [M EXCEPT !.jobs = Append(@, JobOf(r, M.promises[p].state, M.promises[p].v))]

PassthroughFn == [kind |-> "passthrough", v |-> Null]   \* x => x
ThrowerFn == [kind |-> "thrower", v |-> Null]           \* e => { throw e }

\* resolve target with x: follow x when x is a promise, else fulfil with x
ResolveWith(M, target, x) ==
    IF IsPromise(x) THEN Subscribe(M, x.id, PassthroughFn, ThrowerFn, target)
    ELSE SettlePromise(M, target, "fulfilled", x)

SubscribeLast(M, p, onFulfilled, onRejected) ==
    Subscribe(M, p, onFulfilled, onRejected, LastId(M))

\* p.then(onFulfilled, onRejected): the promise returned is LastId of the result
PromiseThen(M, p, onFulfilled, onRejected) ==
    SubscribeLast(NewPromise(M, Null, "pending", NoPlan), p, onFulfilled, onRejected)

\* .then(onFulfilled, onRejected) on the promise created last
ThenOnLast(M, onFulfilled, onRejected) ==
    PromiseThen(M, LastId(M), onFulfilled, onRejected)

\* a caller-supplied function that returns a deferred value: a promise that is
\* already settled (settled = TRUE) or settles later, fulfilled or rejected with v
Defer(how, v, settled) == [kind |-> "defer", v |-> v, how |-> how, settled |-> settled]

Returned(M, x) == [type |-> "return", v |-> x, m |-> M]
ReturnedLast(M) == Returned(M, PromiseValue(LastId(M)))
WithCalls(M, c) == [type |-> c.type, v |-> c.v, m |-> [M EXCEPT !.hcalls = @ \o c.calls]]

\* a call of a caller-supplied function made by a job
ApplyAsyncUser(M, h, args) ==
    IF h.kind = "defer"
    THEN ReturnedLast(
             NewPromise([M EXCEPT !.hcalls = Append(@, [fn |-> h, args |-> args])],
                        IF h.settled THEN h.v ELSE Null,
                        IF h.settled THEN SettledAs(h.how) ELSE "pending",
                        Plan(h.how, h.v)))
    ELSE WithCalls(M, ApplyUser(h, args))

\* the call of an async function whose body completed with c: a new promise,
\* rejected with what the body threw or resolved with what it returned
SettleAsyncFunction(M, p, c) ==
    Returned(IF c.type = "throw" THEN SettlePromise(M, p, "rejected", c.v)
                                 ELSE ResolveWith(M, p, c.v),
             PromiseValue(p))

AsyncFunction(c) ==
    SettleAsyncFunction(NewPromise(c.m, Null, "pending", NoPlan), Len(c.m.promises) + 1, c)

(***************************************************************************)
(* AsyncRepositoryReturn.  An AsyncRepositoryReturn is its promise: this   *)
(* names the promise it wraps, and every method yields the machine in      *)
(* which LastId is the promise of the AsyncRepositoryReturn it returns.    *)
(***************************************************************************)
NoCallback == [kind |-> "undefined", v |-> Null]    \* the argument was not given
RethrowFn == [kind |-> "rethrow", v |-> Null]       \* (err) => { throw err; }
ToFailureFn == [kind |-> "toFailure", v |-> Null]   \* err => repositoryFailure(err)
UnionResolveFn == [kind |-> "unionResolve", v |-> Null]
AwaitResolveFn == [kind |-> "awaitResolve", v |-> Null] \* async (s) => await Promise.resolve(s)
NoneAsFailureFn(value) == [kind |-> "noneAsFailure", v |-> value]
NoneAsSuccessFn(value) == [kind |-> "noneAsSuccess", v |-> value]
FailureAsNoneFn == [kind |-> "failureAsNone", v |-> Null]
IsSuccessFn == [kind |-> "isSuccess", v |-> Null]   \* res => res.isSuccess()
IsFailureFn == [kind |-> "isFailure", v |-> Null]   \* res => res.isFailure()
IsNoneFn == [kind |-> "isNone", v |-> Null]         \* res => res.isNone()
ValueFn == [kind |-> "value", v |-> Null]           \* s => s.value
MatchBodyFn(onNone, onFailure, onSuccess) ==
    [kind |-> "matchBody", v |-> Null,
     onNone |-> onNone, onFailure |-> onFailure, onSuccess |-> onSuccess]

\* the async functions the map family hands to match
AsyncRepositoryNoneFn == [kind |-> "asyncRepositoryNone", v |-> Null]
AsyncRepositoryFailureFn == [kind |-> "asyncRepositoryFailure", v |-> Null]
AsyncRepositorySuccessFn == [kind |-> "asyncRepositorySuccess", v |-> Null]
AsyncCallFn(func) == [kind |-> "asyncCall", v |-> Null, func |-> func]
AsyncMapElementsFn(func) == [kind |-> "asyncMapElements", v |-> Null, func |-> func]
AsyncMapFirstFn(func) == [kind |-> "asyncMapFirst", v |-> Null, func |-> func]
AsyncFilterFn(func) == [kind |-> "asyncFilter", v |-> Null, func |-> func]

\* succ.map(func) in an async handler: what func returns, a promise
\* included, is stored as it is
RECURSIVE AsyncMapLoop(_, _, _, _, _)
AsyncMapLoop(M, func, arr, i, acc) ==
    IF i > Len(arr.els) THEN Returned(M, Arr(acc))
    ELSE LET r == ApplyAsyncUser(M, func, <<arr.els[i], Num(i - 1), arr>>)
         IN  IF r.type = "throw" THEN r
             ELSE AsyncMapLoop(r.m, func, arr, i + 1, Append(acc, r.v))

\* succ.filter(func) in an async handler: an element is kept when what func
\* returns is truthy, as every promise is
RECURSIVE AsyncFilterLoop(_, _, _, _, _)
AsyncFilterLoop(M, func, arr, i, acc) ==
    IF i > Len(arr.els) THEN Returned(M, Arr(acc))
    ELSE LET r == ApplyAsyncUser(M, func, <<arr.els[i], Num(i - 1), arr>>)
         IN  IF r.type = "throw" THEN r
             ELSE AsyncFilterLoop(r.m, func, arr, i + 1,
                                  IF Truthy(r.v) THEN Append(acc, arr.els[i]) ELSE acc)

\* async (succ) => succ.length > 0 ? func(succ[0]) : []
asyncMapFirstBody(M, func, succ) ==
    IF Len(succ.els) > 0 THEN ApplyAsyncUser(M, func, <<succ.els[1]>>)
    ELSE Returned(M, Arr(<<>>))

\* a call of a function that match was given as a handler
ApplyAsync(M, h, args) ==
    CASE h.kind = "asyncRepositoryNone" -> AsyncFunction(Returned(M, repositoryNone))
      [] h.kind = "asyncRepositoryFailure" ->
            AsyncFunction(Returned(M, repositoryFailure(Arg(args, 1))))
      [] h.kind = "asyncRepositorySuccess" ->
            AsyncFunction(Returned(M, repositorySuccess(Arg(args, 1))))
      [] h.kind = "asyncCall" -> AsyncFunction(ApplyAsyncUser(M, h.func, <<>>))
      [] h.kind = "asyncMapElements" ->
            AsyncFunction(AsyncMapLoop(M, h.func, Arg(args, 1), 1, <<>>))
      [] h.kind = "asyncMapFirst" ->
            AsyncFunction(asyncMapFirstBody(M, h.func, Arg(args, 1)))
      [] h.kind = "asyncFilter" ->
            AsyncFunction(AsyncFilterLoop(M, h.func, Arg(args, 1), 1, <<>>))
      [] OTHER -> ApplyAsyncUser(M, h, args)

\* switch (result._tag) of match's async callback: the call of the handler.
\* (`await this.value` yields result.value: this.promise is fulfilled with result.)
asyncMatchSwitch(M, f, result) ==
    CASE result._tag = "none" -> ApplyAsync(M, f.onNone, <<>>)
      [] result._tag = "success" -> ApplyAsync(M, f.onSuccess, <<result.value>>)
      [] result._tag = "failure" -> ApplyAsync(M, f.onFailure, <<result.value>>)

asyncMatchTry_swallow(r, target) ==
    IF r.type = "throw"
    THEN SettlePromise(r.m, target, "fulfilled", repositoryNone)
    ELSE IF IsPromise(r.v)
         THEN Subscribe(r.m, r.v.id, UnionResolveFn, ThrowerFn, target)
         ELSE SettlePromise(r.m, target, "fulfilled", unionResolve(r.v))

\* try { const ret = handler(...);
\*       return unionResolve(ret instanceof Promise ? await ret : ret) }
\* catch (err) { return repositoryFailure(err) }
\* where the call of the handler completed with r; target is the promise of
\* this call of the async callback
asyncMatchTry(r, target) ==
    IF r.type = "throw"
    THEN SettlePromise(r.m, target, "fulfilled", repositoryFailure(r.v))
    ELSE IF IsPromise(r.v)
         THEN Subscribe(r.m, r.v.id, UnionResolveFn, ToFailureFn, target)
         ELSE SettlePromise(r.m, target, "fulfilled", unionResolve(r.v))

\* async result => { try { switch (result._tag) { ... } } catch (err) { ... } }
asyncMatchBody(M, f, result, target) ==
    asyncMatchTry(asyncMatchSwitch(M, f, result), target)

\* the promise of a reaction whose function completed with r
SettleReaction(r, target) ==
    IF r.type = "throw" THEN SettlePromise(r.m, target, "rejected", r.v)
    ELSE ResolveWith(r.m, target, r.v)

\* a caller-supplied function run as a reaction (then's func and callback, catch's func)
userReaction(M, f, arg, target) == SettleReaction(ApplyAsyncUser(M, f, <<arg>>), target)

(***************************************************************************)
(* AsyncRepositoryReturnUtils.all.  Promise.all keeps, in the promise it   *)
(* returned and while that promise is pending, the values received so far  *)
(* by index and the number of elements still awaited.                      *)
(***************************************************************************)
AllElementFn(index) == [kind |-> "allElement", v |-> Null, index |-> index]
AllBodyFn(onFailure, onSuccess) ==
    [kind |-> "allBody", v |-> Null, onFailure |-> onFailure, onSuccess |-> onSuccess]

AllState(remaining, values) == [k |-> "all", remaining |-> remaining, values |-> values]

\* async toPromise() { return this.promise; }
toPromise(M, this) == AsyncFunction(Returned(M, PromiseValue(this)))

\* asyncArgs.map(el => el.toPromise()), from the i-th element on
RECURSIVE mapToPromise(_, _, _)
mapToPromise(M, asyncArgs, i) ==
    IF i > Len(asyncArgs) THEN M
    ELSE mapToPromise(toPromise(M, asyncArgs[i]).m, asyncArgs, i + 1)

allResolveElement_shortCircuit(M, f, arg, target) ==
    IF M.promises[target].state # "pending" THEN M
    ELSE IF ~isSuccess(arg) \/ M.promises[target].v.remaining = 1
         THEN SettlePromise(M, target, "fulfilled",
                            IF isSuccess(arg)
                            THEN Arr([M.promises[target].v.values EXCEPT ![f.index] = arg])
                            ELSE Arr(<<arg>>))
         ELSE [M EXCEPT !.promises[target].v =
                            AllState(@.remaining - 1, [@.values EXCEPT ![f.index] = arg])]

allResolveElement_arrivalOrder(M, f, arg, target) ==
    LET st == M.promises[target].v
        values == [st.values EXCEPT ![Len(st.values) - st.remaining + 1] = arg]
    IN  IF M.promises[target].state # "pending" THEN M
        ELSE IF st.remaining = 1
             THEN SettlePromise(M, target, "fulfilled", Arr(values))
             ELSE [M EXCEPT !.promises[target].v = AllState(st.remaining - 1, values)]

\* Promise.all, the resolve function of the element at f.index: the value is
\* stored at its index, and the last one fulfils the promise with the array
allResolveElement(M, f, arg, target) ==
    IF M.promises[target].state # "pending" THEN M
    ELSE IF M.promises[target].v.remaining = 1
         THEN SettlePromise(M, target, "fulfilled",
                            Arr([M.promises[target].v.values EXCEPT ![f.index] = arg]))
         ELSE [M EXCEPT !.promises[target].v =
                            AllState(@.remaining - 1, [@.values EXCEPT ![f.index] = arg])]

\* Promise.all: every element is subscribed to, a rejection rejects the promise
RECURSIVE allSubscribe(_, _, _)
allSubscribe(M, ps, i) ==
    IF i > Len(ps) THEN M
    ELSE allSubscribe(Subscribe(M, ps[i], AllElementFn(i), ThrowerFn, LastId(M)), ps, i + 1)

\* Promise.all(ps): of no promise, it is fulfilled with [] at once
promiseAll(M, ps) ==
    IF ps = <<>> THEN NewPromise(M, Arr(<<>>), "fulfilled", NoPlan)
    ELSE allSubscribe(NewPromise(M, AllState(Len(ps), [i \in DOMAIN ps |-> Undefined]),
                                 "pending", NoPlan), ps, 1)

\* const args = Promise.all(asyncArgs.map(el => el.toPromise()))
asyncAll(M, asyncArgs) ==
    promiseAll(mapToPromise(M, asyncArgs, 1),
               [i \in DOMAIN asyncArgs |-> Len(M.promises) + i])

asyncAllSuccess_any(res) == \E i \in DOMAIN res.els : isSuccess(res.els[i])

\* res.map((el) => el.isSuccess()).reduce((p, c) => p && c, true)
asyncAllSuccess(res) == \A i \in DOMAIN res.els : isSuccess(res.els[i])

allBody_payloads(M, f, res, target) ==
    SettleReaction(
        AsyncFunction(
            IF asyncAllSuccess(res)
            THEN ApplyAsyncUser(M, f.onSuccess, [i \in DOMAIN res.els |-> res.els[i].value])
            ELSE ApplyAsyncUser(M, f.onFailure, res.els)),
        target)

\* async res => allSuccess ? onSuccess(...res) : onFailure(...res), run as
\* the reaction of args.then
allBody(M, f, res, target) ==
    SettleReaction(
        AsyncFunction(
            IF asyncAllSuccess(res) THEN ApplyAsyncUser(M, f.onSuccess, res.els)
                                    ELSE ApplyAsyncUser(M, f.onFailure, res.els)),
        target)

\* a chooser that hands the rejection of args to onFailure
allChooser_catch(M, args, onFailure, onSuccess) ==
    AsyncFunction(
        ReturnedLast(PromiseThen(M, args, AllBodyFn(onFailure, onSuccess), onFailure))).m

\* async (onFailure, onSuccess) => args.then(async res => ...): the function
\* that all returned, called; args names the promise of Promise.all
allChooser(M, args, onFailure, onSuccess) ==
    AsyncFunction(
        ReturnedLast(PromiseThen(M, args, AllBodyFn(onFailure, onSuccess), ThrowerFn))).m

\* one reaction job: fn(arg) settles target
RunClosure(M, f, arg, target) ==
    CASE f.kind = "passthrough" -> ResolveWith(M, target, arg)
      [] f.kind \in {"thrower", "rethrow"} -> SettlePromise(M, target, "rejected", arg)
      [] f.kind = "toFailure" -> SettlePromise(M, target, "fulfilled", repositoryFailure(arg))
      [] f.kind = "unionResolve" -> SettlePromise(M, target, "fulfilled", unionResolve(arg))
      [] f.kind = "awaitResolve" -> ResolveWith(M, target, arg)
      [] f.kind = "noneAsFailure" -> ResolveWith(M, target, noneAsFailure(arg, f.v))
      [] f.kind = "noneAsSuccess" -> ResolveWith(M, target, noneAsSuccess(arg, f.v))
      [] f.kind = "failureAsNone" -> ResolveWith(M, target, failureAsNone(arg))
      [] f.kind = "isSuccess" -> ResolveWith(M, target, Bool(isSuccess(arg)))
      [] f.kind = "isFailure" -> ResolveWith(M, target, Bool(isFailure(arg)))
      [] f.kind = "isNone" -> ResolveWith(M, target, Bool(isNone(arg)))
      [] f.kind = "value" -> ResolveWith(M, target, arg.value)
      [] f.kind = "matchBody" -> asyncMatchBody(M, f, arg, target)
      [] f.kind = "allElement" -> allResolveElement(M, f, arg, target)
      [] f.kind = "allBody" -> allBody(M, f, arg, target)
      [] OTHER -> userReaction(M, f, arg, target)

\* Promise.resolve(this.promise).then(func).catch(callback || ((err) => { throw err; }))
arrAnyThen(M, this, func, callback) ==
    ThenOnLast(PromiseThen(M, this, func, ThrowerFn), PassthroughFn,
               IF callback = NoCallback THEN RethrowFn ELSE callback)

arrThen_noUnionResolve(M, this, func, callback) ==
    ThenOnLast(arrAnyThen(M, this, func, callback), AwaitResolveFn, ThrowerFn)

\* ... .then(func).catch(callback || rethrow).then(async (s) => await Promise.resolve(s))
\*     .then(unionResolve)
arrThen(M, this, func, callback) ==
    ThenOnLast(ThenOnLast(arrAnyThen(M, this, func, callback), AwaitResolveFn, ThrowerFn),
               UnionResolveFn, ThrowerFn)

arrCatch_always(M, this, func) ==
    ThenOnLast(PromiseThen(M, this, func, func), UnionResolveFn, ThrowerFn)

\* Promise.resolve(this.promise).catch(func).then(unionResolve)
arrCatch(M, this, func) ==
    ThenOnLast(PromiseThen(M, this, PassthroughFn, func), UnionResolveFn, ThrowerFn)

arrMatch_noCatch(M, this, onNone, onFailure, onSuccess) ==
    arrAnyThen(M, this, MatchBodyFn(onNone, onFailure, onSuccess), NoCallback)

\* this.anyThen(async result => ...).catch(err => repositoryFailure(err))
arrMatch(M, this, onNone, onFailure, onSuccess) ==
    ThenOnLast(arrAnyThen(M, this, MatchBodyFn(onNone, onFailure, onSuccess), NoCallback),
               PassthroughFn, ToFailureFn)

arrMapSuccess(M, this, func) ==
    arrMatch(M, this, AsyncRepositoryNoneFn, AsyncRepositoryFailureFn, func)

arrMap(M, this, func) == arrMapSuccess(M, this, func)

arrMapFailure_onNone(M, this, func) ==
    arrMatch(M, this, AsyncCallFn(func), func, AsyncRepositorySuccessFn)

arrMapFailure(M, this, func) ==
    arrMatch(M, this, AsyncRepositoryNoneFn, func, AsyncRepositorySuccessFn)

arrMapNone(M, this, func) ==
    arrMatch(M, this, AsyncCallFn(func), AsyncRepositoryFailureFn, AsyncRepositorySuccessFn)

arrMapElements(M, this, func) ==
    arrMatch(M, this, AsyncRepositoryNoneFn, AsyncRepositoryFailureFn,
             AsyncMapElementsFn(func))

arrMapFirst(M, this, func) ==
    arrMatch(M, this, AsyncRepositoryNoneFn, AsyncRepositoryFailureFn,
             AsyncMapFirstFn(func))

arrFilter(M, this, func) ==
    arrMatch(M, this, AsyncRepositoryNoneFn, AsyncRepositoryFailureFn,
             AsyncFilterFn(func))

arrNoneAsFailure(M, this, value) == arrThen(M, this, NoneAsFailureFn(value), NoCallback)

arrNoneAsSuccess(M, this, value) == arrThen(M, this, NoneAsSuccessFn(value), NoCallback)

\* a failureAsNone that also converts the RepositoryReturn of the receiver
arrFailureAsNone_inPlace(M, this) ==
    LET N == arrThen(M, this, FailureAsNoneFn, NoCallback)
    IN  [N EXCEPT !.promises[this].v =
                      IF N.promises[this].state = "fulfilled" THEN failureAsNone(@) ELSE @]

arrFailureAsNone(M, this) == arrThen(M, this, FailureAsNoneFn, NoCallback)

\* async isSuccess() { return this.promise.then(res => res.isSuccess()); }
\* and likewise isFailure and isNone: fn is the function given to then
arrPredicate(M, this, fn) ==
    AsyncFunction(ReturnedLast(PromiseThen(M, this, fn, ThrowerFn))).m

\* get value() { return Promise.resolve(this.promise.then(s => s.value)); }
arrValue(M, this) == PromiseThen(M, this, ValueFn, ThrowerFn)

\* the method op of the AsyncRepositoryReturn this, called with args
Perform(M, this, op, args) ==
    CASE op = "toPromise" -> toPromise(M, this).m
      [] op = "value" -> arrValue(M, this)
      [] op = "isSuccess" -> arrPredicate(M, this, IsSuccessFn)
      [] op = "isFailure" -> arrPredicate(M, this, IsFailureFn)
      [] op = "isNone" -> arrPredicate(M, this, IsNoneFn)
      [] op = "match" -> arrMatch(M, this, args[1], args[2], args[3])
      [] op = "then" -> arrThen(M, this, args[1], args[2])
      [] op = "catch" -> arrCatch(M, this, args[1])
      [] op = "map" -> arrMap(M, this, args[1])
      [] op = "mapSuccess" -> arrMapSuccess(M, this, args[1])
      [] op = "mapFailure" -> arrMapFailure(M, this, args[1])
      [] op = "mapNone" -> arrMapNone(M, this, args[1])
      [] op = "mapElements" -> arrMapElements(M, this, args[1])
      [] op = "mapFirst" -> arrMapFirst(M, this, args[1])
      [] op = "filter" -> arrFilter(M, this, args[1])
      [] op = "noneAsFailure" -> arrNoneAsFailure(M, this, args[1])
      [] op = "noneAsSuccess" -> arrNoneAsSuccess(M, this, args[1])
      [] op = "failureAsNone" -> arrFailureAsNone(M, this)

(***************************************************************************)
(* SpecAsync: an AsyncRepositoryReturn wraps a computation that is still   *)
(* pending and will fulfil with a RepositoryReturn or reject.  As in the   *)
(* event loop, a task runs when the microtask queue is empty: a task calls *)
(* an operation on an AsyncRepositoryReturn (the first, or one returned by *)
(* an earlier call), or settles the wrapped computation or a deferred      *)
(* value a handler returned; the jobs it queues then run in order.         *)
(***************************************************************************)
AsyncReceivers ==
    {repositoryNone, repositoryFailure(Err("E")), repositorySuccess(Arr(<<>>)),
     repositorySuccess(Num(0)), repositorySuccess(Arr(<<Num(1), Num(0)>>))}

Wrapped ==
    {Plan("fulfil", o) : o \in AsyncReceivers} \cup {Plan("reject", Err("down"))}

\* the caller-supplied functions of SpecAsync: returning, throwing, and
\* returning a deferred value that fulfils or rejects, at once or later
AsyncHandlers ==
    {Const(Num(0)), Throw(Err("boom")),
     Defer("fulfil", Num(0), FALSE), Defer("reject", Err("late"), FALSE)}

\* the two handlers of a match that are given beside the one under study
MarkerA == Const(Num(1))
MarkerB == Throw(Err("other"))

MatchTriples ==
    UNION {{<<h, MarkerA, MarkerB>>, <<MarkerB, h, MarkerA>>, <<MarkerA, MarkerB, h>>} :
           h \in AsyncHandlers}

AsyncMapFuncs ==
    {Const(Num(0)), Const(Arr(<<>>)), Throw(Err("boom")), Identity,
     Defer("fulfil", Num(0), FALSE), Defer("reject", Err("late"), TRUE)}
AsyncElementFuncs ==
    {Inc, Const(Err("E2")), Throw(Err("boom")),
     Defer("fulfil", Arr(<<>>), TRUE), Defer("reject", Err("late"), FALSE)}
AsyncPredicates == {IsPositive, Const(Bool(TRUE)), Throw(Num(0))}
ThenFuncs == AsyncHandlers \cup {Identity}
Callbacks == {NoCallback, Const(Num(1)), Throw(Err("cb"))}
CatchFuncs == {Const(Num(1)), Throw(Err("boom")), Defer("fulfil", Num(1), FALSE)}

InitAsync ==
    /\ promises \in {<<[v |-> Null, state |-> "pending", plan |-> w]>> : w \in Wrapped}
    /\ reactions = <<>>
    /\ jobs = <<>>
    /\ hcalls = <<>>
    /\ aops = <<>>
    /\ settles = <<>>
    /\ heap = <<>>
    /\ rr = repositoryNone
    /\ last = [op |-> "new", recv |-> Null, args |-> <<>>, c |-> NoCompletion]
    /\ nops = 0

\* the promises of the AsyncRepositoryReturns: the first, and those operations returned
ArrIds == {1} \cup {aops[i].result : i \in DOMAIN aops}

Becomes(M) ==
    /\ promises' = M.promises
    /\ reactions' = M.reactions
    /\ jobs' = M.jobs
    /\ hcalls' = M.hcalls

\* op(args) was called on the AsyncRepositoryReturn this and left the machine M
Called(op, this, args, M) ==
    /\ jobs = <<>>
    /\ Len(aops) < MaxAsyncOps
    /\ Becomes(M)
    /\ aops' = Append(aops, [op |-> op, recv |-> this, args |-> args, result |-> LastId(M)])
    /\ UNCHANGED <<settles, rr, heap, last, nops>>

\* a promise the library does not settle itself settles as planned
Settle ==
    \E p \in DOMAIN promises :
        /\ jobs = <<>>
        /\ promises[p].state = "pending"
        /\ promises[p].plan.how # "none"
        /\ Becomes(SettlePromise(Machine, p, SettledAs(promises[p].plan.how),
                                 promises[p].plan.v))
        /\ settles' = Append(settles, p)
        /\ UNCHANGED <<aops, rr, heap, last, nops>>

\* the first job of the microtask queue runs
RunJob ==
    /\ jobs # <<>>
    /\ LET job == Head(jobs)
       IN  Becomes(RunClosure([Machine EXCEPT !.jobs = Tail(@)],
                              job.fn, job.arg, job.target))
    /\ UNCHANGED <<aops, settles, rr, heap, last, nops>>

CallMatch ==
    \E this \in ArrIds, hs \in MatchTriples :
        Called("match", this, hs, arrMatch(Machine, this, hs[1], hs[2], hs[3]))

CallMap ==
    \E this \in ArrIds, func \in AsyncMapFuncs :
        Called("map", this, <<func>>, arrMap(Machine, this, func))

CallMapSuccess ==
    \E this \in ArrIds, func \in AsyncMapFuncs :
        Called("mapSuccess", this, <<func>>, arrMapSuccess(Machine, this, func))

CallMapFailure ==
    \E this \in ArrIds, func \in AsyncMapFuncs :
        Called("mapFailure", this, <<func>>, arrMapFailure(Machine, this, func))

CallMapNone ==
    \E this \in ArrIds, func \in AsyncMapFuncs :
        Called("mapNone", this, <<func>>, arrMapNone(Machine, this, func))

CallMapElements ==
    \E this \in ArrIds, func \in {Identity, Inc, Throw(Err("boom"))} :
        Called("mapElements", this, <<func>>, arrMapElements(Machine, this, func))

CallMapFirst ==
    \E this \in ArrIds, func \in AsyncElementFuncs :
        Called("mapFirst", this, <<func>>, arrMapFirst(Machine, this, func))

CallFilter ==
    \E this \in ArrIds, func \in AsyncPredicates :
        Called("filter", this, <<func>>, arrFilter(Machine, this, func))

CallNoneAsFailure ==
    \E this \in ArrIds, value \in Errors :
        Called("noneAsFailure", this, <<value>>, arrNoneAsFailure(Machine, this, value))

CallNoneAsSuccess ==
    \E this \in ArrIds, value \in {Arr(<<>>), Arr(<<Num(1)>>)} :
        Called("noneAsSuccess", this, <<value>>, arrNoneAsSuccess(Machine, this, value))

CallFailureAsNone ==
    \E this \in ArrIds :
        Called("failureAsNone", this, <<>>, arrFailureAsNone(Machine, this))

CallThen ==
    \E this \in ArrIds, func \in ThenFuncs, callback \in Callbacks :
        Called("then", this, <<func, callback>>, arrThen(Machine, this, func, callback))

CallCatch ==
    \E this \in ArrIds, func \in CatchFuncs :
        Called("catch", this, <<func>>, arrCatch(Machine, this, func))

NextAsync ==
    \/ Settle
    \/ RunJob
    \/ CallMatch
    \/ CallMap
    \/ CallMapSuccess
    \/ CallMapFailure
    \/ CallMapNone
    \/ CallMapElements
    \/ CallMapFirst
    \/ CallFilter
    \/ CallNoneAsFailure
    \/ CallNoneAsSuccess
    \/ CallFailureAsNone
    \/ CallThen
    \/ CallCatch

SpecAsync == InitAsync /\ [][NextAsync]_vars

(***************************************************************************)
(* Claims about AsyncRepositoryReturn, checked under SpecAsync             *)
(***************************************************************************)
\* the promise an operation was called on, and the promise it returned
Source(i) == promises[aops[i].recv]
Result(i) == promises[aops[i].result]

Range(q) == {q[j] : j \in DOMAIN q}

\* a promise a caller-supplied function returned with the plan of h has settled
DeferredSettled(h) ==
    \E p \in DOMAIN promises :
        /\ p > 1
        /\ promises[p].plan = Plan(h.how, h.v)
        /\ promises[p].state # "pending"

\* C4: match on an AsyncRepositoryReturn whose promise fulfils never rejects:
\* a handler that throws, or returns a promise that rejects, gives Failure
\* of the exception; a handler that returns a promise fulfilling with v
\* gives unionResolve(v), and only once that promise has settled.
C4_AsyncMatchNeverRejects ==
    \A i \in DOMAIN aops :
        (aops[i].op = "match" /\ Source(i).state = "fulfilled") =>
            LET h == HandlerOf(Source(i).v, aops[i].args)
            IN  /\ Result(i).state # "rejected"
                /\ Result(i).state = "fulfilled" =>
                       CASE h.kind = "throw" -> Result(i).v = repositoryFailure(h.v)
                         [] h.kind = "defer" /\ h.how = "reject" ->
                                /\ DeferredSettled(h)
                                /\ Result(i).v = repositoryFailure(h.v)
                         [] h.kind = "defer" /\ h.how = "fulfil" ->
                                /\ DeferredSettled(h)
                                /\ Result(i).v = unionResolve(h.v)
                         [] OTHER -> Result(i).v = unionResolve(h.v)

C4_Witness ==
    \E i \in DOMAIN aops :
        /\ aops[i].op = "match"
        /\ Source(i).state = "fulfilled"
        /\ HandlerOf(Source(i).v, aops[i].args) = Defer("reject", Err("late"), FALSE)
        /\ Result(i).state = "fulfilled"
        /\ Result(i).v = repositoryFailure(Err("late"))

EquivalenceOps ==
    {"match", "map", "mapSuccess", "mapFailure", "mapNone", "mapElements",
     "mapFirst", "filter", "noneAsFailure", "noneAsSuccess", "failureAsNone"}

\* what the operation of the same name returns on the RepositoryReturn o
SyncOp(op, o, args) ==
    CASE op = "match" -> match(o, args[1], args[2], args[3]).v
      [] op = "map" -> map(o, args[1]).v
      [] op = "mapSuccess" -> mapSuccess(o, args[1]).v
      [] op = "mapFailure" -> mapFailure(o, args[1]).v
      [] op = "mapNone" -> mapNone(o, args[1]).v
      [] op = "mapElements" -> mapElements(o, args[1]).v
      [] op = "mapFirst" -> mapFirst(o, args[1]).v
      [] op = "filter" -> filter(o, args[1]).v
      [] op = "noneAsFailure" -> noneAsFailure(o, args[1])
      [] op = "noneAsSuccess" -> noneAsSuccess(o, args[1])
      [] op = "failureAsNone" -> failureAsNone(o)

SynchronousArgs(args) ==
    \A a \in Range(args) : "kind" \in DOMAIN a => a.kind # "defer"

\* C5: for every RepositoryReturn o and every operation of the match and map
\* family or conversion, called with synchronous handlers, the
\* AsyncRepositoryReturn wrapping o settles to the RepositoryReturn that the
\* same operation returns on o itself.
C5_AsyncEqualsSync ==
    \A i \in DOMAIN aops :
        (/\ aops[i].op \in EquivalenceOps
         /\ Source(i).state = "fulfilled"
         /\ SynchronousArgs(aops[i].args)
         /\ Result(i).state # "pending") =>
            /\ Result(i).state = "fulfilled"
            /\ Result(i).v = SyncOp(aops[i].op, Source(i).v, aops[i].args)

\* the value a caller-supplied function that returns hands back, awaited
Returns(h) == h.kind \in {"const", "identity"} \/ (h.kind = "defer" /\ h.how = "fulfil")
AwaitedReturn(h, x) == IF h.kind = "identity" THEN x ELSE h.v

GivenElsewhere(h, i) == \E j \in DOMAIN aops : j # i /\ h \in Range(aops[j].args)

\* C10: then(func, callback): when the promise fulfils with a
\* RepositoryReturn o of any tag, func is invoked with o itself and the new
\* AsyncRepositoryReturn settles to unionResolve of the awaited value func
\* returned; when the promise rejects with e, func is not invoked, and the
\* new AsyncRepositoryReturn settles to unionResolve of callback(e) when a
\* callback was given and otherwise rejects with e.
C10_ThenSettles ==
    \A i \in DOMAIN aops :
        aops[i].op = "then" =>
            LET func == aops[i].args[1]
                callback == aops[i].args[2]
                x == Source(i).v
            IN  /\ (Source(i).state = "fulfilled" /\ Result(i).state # "pending") =>
                       /\ [fn |-> func, args |-> <<x>>] \in Range(hcalls)
                       /\ Returns(func) =>
                              /\ Result(i).state = "fulfilled"
                              /\ Result(i).v = unionResolve(AwaitedReturn(func, x))
                /\ (Source(i).state = "rejected" /\ ~GivenElsewhere(func, i)) =>
                       \A c \in Range(hcalls) : c.fn # func
                /\ (Source(i).state = "rejected" /\ Result(i).state # "pending") =>
                       IF callback = NoCallback
                       THEN Result(i).state = "rejected" /\ Result(i).v = x
                       ELSE /\ [fn |-> callback, args |-> <<x>>] \in Range(hcalls)
                            /\ Returns(callback) =>
                                   /\ Result(i).state = "fulfilled"
                                   /\ Result(i).v = unionResolve(AwaitedReturn(callback, x))

C10_Witness ==
    \E i \in DOMAIN aops :
        /\ aops[i].op = "then"
        /\ Source(i).state = "fulfilled"
        /\ Source(i).v = repositoryFailure(Err("E"))
        /\ aops[i].args[1] = Defer("fulfil", Num(0), FALSE)
        /\ [fn |-> aops[i].args[1], args |-> <<Source(i).v>>] \in Range(hcalls)
        /\ Result(i).state = "fulfilled"
        /\ Result(i).v = repositorySuccess(Num(0))

(***************************************************************************)
(* SpecAll: all on a list of AsyncRepositoryReturns whose promises settle  *)
(* from outside, in any order and at any time, its chooser called with two *)
(* handlers; and RepositoryReturnUtils.all on the RepositoryReturns those  *)
(* promises are fulfilled with.                                            *)
(***************************************************************************)
AllPlans ==
    {Plan("fulfil", o) :
        o \in {repositoryNone, repositoryFailure(Err("E")),
               repositorySuccess(Num(0)), repositorySuccess(Num(1))}}
        \cup {Plan("reject", Err("down")), Plan("reject", Err("down2"))}

\* the handlers given to the choosers, as <<onFailure, onSuccess>>: no
\* handler is given in both places
AsyncHandlerPairs ==
    {<<Const(Str("f")), Const(Str("s"))>>,
     <<Defer("fulfil", Str("f"), FALSE), Throw(Err("s"))>>}
SyncHandlerPairs ==
    {<<Const(Str("f")), Identity>>, <<Throw(Err("f")), Const(Str("s"))>>}

InitAll ==
    /\ promises \in {[i \in DOMAIN ws |-> [v |-> Null, state |-> "pending", plan |-> ws[i]]] :
                        ws \in SeqsUpTo(AllPlans, NumInputs)}
    /\ reactions = <<>>
    /\ jobs = <<>>
    /\ hcalls = <<>>
    /\ aops = <<>>
    /\ settles = <<>>
    /\ heap = <<>>
    /\ rr = repositoryNone
    /\ last = [op |-> "new", recv |-> Null, args |-> <<>>, c |-> NoCompletion]
    /\ nops = 0

\* the number of AsyncRepositoryReturns given to all: they wrap the promises 1..NumArgs
NumArgs == IF aops = <<>> THEN Len(promises) ELSE Len(aops[1].args)

\* all(...asyncArgs) is called
CallAll ==
    /\ aops = <<>>
    /\ jobs = <<>>
    /\ LET M == asyncAll(Machine, [i \in 1..NumArgs |-> i])
       IN  /\ Becomes(M)
           /\ aops' = <<[op |-> "all", recv |-> 0,
                         args |-> [i \in 1..NumArgs |-> PromiseValue(i)],
                         result |-> LastId(M)]>>
    /\ UNCHANGED <<settles, rr, heap, last, nops>>

\* the function all returned is called with two handlers
CallChooser ==
    /\ aops # <<>>
    /\ jobs = <<>>
    /\ Len(aops) <= MaxAsyncOps
    /\ \E hs \in AsyncHandlerPairs :
          LET M == allChooser(Machine, aops[1].result, hs[1], hs[2])
          IN  /\ Becomes(M)
              /\ aops' = Append(aops, [op |-> "chooser", recv |-> aops[1].result,
                                       args |-> hs, result |-> LastId(M)])
    /\ UNCHANGED <<settles, rr, heap, last, nops>>

\* RepositoryReturnUtils.all(...args)(onFailure, onSuccess), args being the
\* RepositoryReturns the promises are to be fulfilled with
SyncAll ==
    /\ \A i \in 1..NumArgs : promises[i].plan.how = "fulfil"
    /\ \E hs \in SyncHandlerPairs :
          LET args == [i \in 1..NumArgs |-> promises[i].plan.v]
          IN  last' = [op |-> "all", recv |-> Arr(args), args |-> hs,
                       c |-> all(args, hs[1], hs[2])]
    /\ UNCHANGED <<rr, heap, nops, promises, reactions, jobs, hcalls, aops, settles>>

NextAll ==
    \/ Settle
    \/ RunJob
    \/ CallAll
    \/ CallChooser
    \/ SyncAll

SpecAll == InitAll /\ [][NextAll]_vars

(***************************************************************************)
(* Claims about all, checked under SpecAll                                 *)
(***************************************************************************)
Inputs == 1..NumArgs
ChooserCalls == {i \in DOMAIN aops : aops[i].op = "chooser"}
InputsFulfilled == \A i \in Inputs : promises[i].state = "fulfilled"
EveryInputSuccess == \A i \in Inputs : promises[i].v._tag = "success"

\* the handler a chooser call must invoke once every input is fulfilled
Chosen(i) == IF EveryInputSuccess THEN aops[i].args[2] ELSE aops[i].args[1]
CallsOf(h) == Cardinality({j \in DOMAIN hcalls : hcalls[j].fn = h})
ChoosersOf(h) == Cardinality({i \in ChooserCalls : Chosen(i) = h})

\* C6: the synchronous all, and the asynchronous all once all its inputs are
\* fulfilled, invoke exactly one of the two handlers, exactly once: the
\* success handler if and only if every input is Success, otherwise the
\* failure handler.
C6_AllSuccessGate ==
    /\ last.op = "all" =>
           /\ Len(last.c.calls) = 1
           /\ last.c.calls[1].fn =
                  IF \A i \in DOMAIN last.recv.els : last.recv.els[i]._tag = "success"
                  THEN last.args[2] ELSE last.args[1]
    /\ (aops # <<>> /\ InputsFulfilled) =>
           /\ \A c \in Range(hcalls) : \E i \in ChooserCalls : c.fn = Chosen(i)
           /\ \A c \in Range(hcalls) : CallsOf(c.fn) <= ChoosersOf(c.fn)
           /\ jobs = <<>> => \A i \in ChooserCalls : CallsOf(Chosen(i)) = ChoosersOf(Chosen(i))

C6_Witness ==
    /\ last.op = "all"
    /\ last.c.calls = <<[fn |-> last.args[1], args |-> last.recv.els]>>
    /\ NumArgs = 2
    /\ InputsFulfilled
    /\ promises[1].v = repositorySuccess(Num(0))
    /\ promises[2].v = repositoryFailure(Err("E"))
    /\ ChooserCalls # {}
    /\ Len(hcalls) = 1
    /\ hcalls[1].fn = aops[2].args[1]

C8_NoHandlerBeforeAllSettled ==
    hcalls # <<>> => \A i \in Inputs : promises[i].state # "pending"

C8_Witness ==
    /\ ChooserCalls # {}
    /\ jobs = <<>>
    /\ hcalls = <<>>
    /\ \E i \in Inputs : promises[i].state = "fulfilled" /\ ~isSuccess(promises[i].v)
    /\ \E i \in Inputs : promises[i].state = "pending"

\* C9: whatever the order in which the inputs of the asynchronous all settle,
\* the i-th argument of the handler invoked is the RepositoryReturn of the
\* i-th input.
C9_ArgumentsInInputOrder ==
    \A c \in Range(hcalls) :
        /\ Len(c.args) = NumArgs
        /\ \A i \in Inputs : c.args[i] = promises[i].plan.v

C9_Witness ==
    /\ NumArgs = 2
    /\ Len(settles) >= 2
    /\ settles[1] = 2
    /\ settles[2] = 1
    /\ promises[1].plan.v # promises[2].plan.v
    /\ hcalls # <<>>
    /\ hcalls[1].args = <<promises[1].plan.v, promises[2].plan.v>>

(***************************************************************************)
(* Further claims about AsyncRepositoryReturn, checked under SpecAsync     *)
(***************************************************************************)
\* C11: catch(func) invokes func only if the promise rejects, and then
\* settles to unionResolve of the awaited value func returned; if the
\* promise fulfils with a RepositoryReturn, a Failure included, func is never
\* invoked and the result settles to that same RepositoryReturn.
C11_CatchOnlyOnRejection ==
    \A i \in DOMAIN aops :
        aops[i].op = "catch" =>
            LET func == aops[i].args[1]
                x == Source(i).v
            IN  /\ (Source(i).state # "rejected" /\ ~GivenElsewhere(func, i)) =>
                       \A c \in Range(hcalls) : c.fn # func
                /\ (Source(i).state = "fulfilled" /\ Result(i).state # "pending") =>
                       /\ Result(i).state = "fulfilled"
                       /\ Result(i).v = x
                /\ (Source(i).state = "rejected" /\ Result(i).state # "pending") =>
                       /\ [fn |-> func, args |-> <<x>>] \in Range(hcalls)
                       /\ Returns(func) =>
                              /\ Result(i).state = "fulfilled"
                              /\ Result(i).v = unionResolve(AwaitedReturn(func, x))

C11_Witness ==
    \E i \in DOMAIN aops :
        /\ aops[i].op = "catch"
        /\ Source(i).state = "rejected"
        /\ aops[i].args[1] = Defer("fulfil", Num(1), FALSE)
        /\ [fn |-> aops[i].args[1], args |-> <<Source(i).v>>] \in Range(hcalls)
        /\ Result(i).state = "fulfilled"
        /\ Result(i).v = repositorySuccess(Num(1))

MatchFamilyOps ==
    {"match", "map", "mapSuccess", "mapFailure", "mapNone", "mapElements", "mapFirst", "filter"}
ConversionOps == {"noneAsFailure", "noneAsSuccess", "failureAsNone"}

\* an operation that is neither catch nor a then given a rejection handler
Unconverting(i) ==
    \/ aops[i].op \in MatchFamilyOps \cup ConversionOps
    \/ aops[i].op = "then" /\ aops[i].args[2] = NoCallback

\* C12 as stated: when the promise rejects with e, the promise of every
\* operation other than catch and then with a rejection handler rejects
\* with e; the rejection is never turned into a settled RepositoryReturn.
C12_RejectionSurfaces ==
    \A i \in DOMAIN aops :
        (Unconverting(i) /\ Source(i).state = "rejected" /\ Result(i).state # "pending") =>
            /\ Result(i).state = "rejected"
            /\ Result(i).v = Source(i).v

\* C12, amended: when the promise rejects with e, the state conversions and
\* then without a rejection handler reject with e, while match and the map
\* family, which end with .catch(err => repositoryFailure(err)), settle to
\* Failure(e) without invoking any of the handlers given.
C12_RejectionSurfacesOrFails ==
    \A i \in DOMAIN aops :
        (Unconverting(i) /\ Source(i).state = "rejected") =>
            /\ \A h \in Range(aops[i].args) :
                   ("kind" \in DOMAIN h /\ ~GivenElsewhere(h, i)) =>
                       \A c \in Range(hcalls) : c.fn # h
            /\ Result(i).state # "pending" =>
                   IF aops[i].op \in MatchFamilyOps
                   THEN /\ Result(i).state = "fulfilled"
                        /\ Result(i).v = repositoryFailure(Source(i).v)
                   ELSE /\ Result(i).state = "rejected"
                        /\ Result(i).v = Source(i).v

C12_Witness ==
    \E i \in DOMAIN aops :
        /\ aops[i].op = "match"
        /\ Source(i).state = "rejected"
        /\ hcalls = <<>>
        /\ Result(i).state = "fulfilled"
        /\ Result(i).v = repositoryFailure(Err("down"))

(***************************************************************************)
(* SpecCreate: AsyncRepositoryReturnUtils.create applied to raw values,    *)
(* RepositoryReturns and the AsyncRepositoryReturn that exists already.    *)
(***************************************************************************)
\* an AsyncRepositoryReturn as a value: the object wrapping the promise id
ArrValue(id) == [k |-> "arr", id |-> id]

\* AsyncRepositoryReturnUtils.none()
arrNone(M) == Returned(NewPromise(M, repositoryNone, "fulfilled", NoPlan),
                       ArrValue(Len(M.promises) + 1))

\* !value ? none() : value instanceof AsyncRepositoryReturn ? value
\*        : new AsyncRepositoryReturn(Promise.resolve(unionResolve(value)))
create(M, value) ==
    IF ~Truthy(value) THEN arrNone(M)
    ELSE IF value.k = "arr" THEN Returned(M, value)
    ELSE Returned(NewPromise(M, unionResolve(value), "fulfilled", NoPlan),
                  ArrValue(Len(M.promises) + 1))

CreateInputs == RawValues \cup {ArrValue(1)}

Create ==
    \E value \in CreateInputs :
        /\ Len(aops) < MaxAsyncOps
        /\ Becomes(create(Machine, value).m)
        /\ aops' = Append(aops, [op |-> "create", recv |-> 0, args |-> <<value>>,
                                 result |-> create(Machine, value).v.id])
        /\ UNCHANGED <<settles, rr, heap, last, nops>>

NextCreate ==
    \/ Create
    \/ Settle

SpecCreate == InitAsync /\ [][NextCreate]_vars

\* C13: create(v) yields an AsyncRepositoryReturn whose promise is already
\* fulfilled with unionResolve(v), for every raw value and RepositoryReturn
\* v, and returns an AsyncRepositoryReturn given to it unchanged.
C13_CreateNormalizes ==
    \A i \in DOMAIN aops :
        aops[i].op = "create" =>
            LET value == aops[i].args[1]
            IN  IF value.k = "arr" THEN aops[i].result = value.id
                ELSE /\ Result(i).state = "fulfilled"
                     /\ Result(i).v = unionResolve(value)

(***************************************************************************)
(* SpecConvert: flatten on RepositoryReturns built by the constructors,    *)
(* nested in one another up to MaxDepth deep.                              *)
(***************************************************************************)
\* repositorySuccess(o) and repositoryFailure(o) of the RepositoryReturns o of S
NestedIn(S) == {repositorySuccess(o) : o \in S} \cup {repositoryFailure(o) : o \in S}

RECURSIVE Nested(_)
Nested(d) == IF d = 0 THEN Constructed ELSE Constructed \cup NestedIn(Nested(d - 1))

InitConvert ==
    /\ rr \in Nested(MaxDepth)
    /\ last = [op |-> "new", recv |-> Null, args |-> <<>>, c |-> NoCompletion]
    /\ nops = 0
    /\ NoAsync

Flatten == Applied("flatten", rr, <<>>, Plain(flatten(rr)))

\* the two-state Result: success(s) and failure(f)
success(s) == [k |-> "result", _tag |-> "success", value |-> s]
failure(f) == [k |-> "result", _tag |-> "failure", value |-> f]

\* the runtime guard of Result: any object tagged success or failure
isResult(obj) ==
    /\ obj.k \notin {"null", "undefined"}
    /\ TypeOf(obj) = "object"
    /\ "_tag" \in DOMAIN obj
    /\ obj._tag \in {"success", "failure"}

\* els[0]
ElementZero(els) == IF Len(els.els) > 0 THEN els.els[1] ELSE Undefined
ElementZeroFn == [kind |-> "elementZero", v |-> Null]    \* els => els[0]

\* Result.map: a failure is rebuilt, the success value goes through func,
\* whose result is returned as it is when isResult says it is a Result
resultMap(this, func) ==
    IF this._tag = "success"
    THEN LET res == IF func.kind = "elementZero" THEN ElementZero(this.value)
                    ELSE ApplyUser(func, <<this.value>>).v
         IN  IF isResult(res) THEN res ELSE success(res)
    ELSE failure(this.value)

asResult(this, whenNone) ==
    IF isNone(this)
    THEN LET c == ApplyUser(whenNone, <<>>)
         IN  IF c.type = "throw" THEN c
             ELSE Logged(Ret(IF InstanceOfError(c.v) THEN failure(c.v)
                             ELSE success(IF IsArray(c.v) THEN c.v ELSE Arr(<<c.v>>))),
                         c.calls)
    ELSE IF isFailure(this) THEN Ret(failure(this.value))
    ELSE Ret(success(this.value))

asFirstElementResult(this, whenNone) ==
    LET c == asResult(this, whenNone)
    IN  IF c.type = "throw" THEN c
        ELSE Logged(Ret(resultMap(c.v, ElementZeroFn)), c.calls)

WhenNone ==
    {Const(v) : v \in {Err("E2"), Num(0), Arr(<<>>), Arr(<<Num(1), Num(0)>>)}}
        \cup {Throw(Err("boom"))}

\* a conversion to a Result completed with c; the RepositoryReturn stays
\* the receiver of the next operation
Converted(op, args, c) ==
    /\ nops < MaxOps
    /\ nops' = nops + 1
    /\ last' = [op |-> op, recv |-> rr, args |-> args, c |-> c]
    /\ UNCHANGED <<rr, heap, asyncVars>>

AsResult ==
    \E whenNone \in WhenNone :
        Converted("asResult", <<whenNone>>, asResult(rr, whenNone))

AsFirstElementResult ==
    \E whenNone \in WhenNone :
        Converted("asFirstElementResult", <<whenNone>>,
                  asFirstElementResult(rr, whenNone))

NextConvert ==
    \/ Flatten
    \/ AsResult
    \/ AsFirstElementResult

SpecConvert == InitConvert /\ [][NextConvert]_vars

\* the RepositoryReturn nested innermost in o
RECURSIVE Innermost(_)
Innermost(o) ==
    IF o._tag = "failure" /\ isRR(o.value) THEN Innermost(o.value)
    ELSE IF o._tag = "success" /\ Len(o.value.els) = 1 /\ isRR(o.value.els[1])
         THEN Innermost(o.value.els[1])
         ELSE o

\* C14: flatten() returns a RepositoryReturn with the tag and payload of the
\* innermost RepositoryReturn of the nesting: a Success whose payload is
\* Failure(e) flattens to Failure(e), a Success wrapping Success(seq) to
\* Success(seq).
C14_FlattenInnermost ==
    last.op = "flatten" => last.c.v = Innermost(last.recv)

(***************************************************************************)
(* Laws of the map family                                                  *)
(***************************************************************************)
\* C15 (checked under Spec): for every RepositoryReturn o, None, Failure or
\* Success of any sequence, o.map(x => x) has the tag and the payload of o.
C15_FunctorIdentity ==
    (last.op = "map" /\ last.args = <<Identity>>) => last.c.v = last.recv

\* op leaves a receiver in the state of o alone
ShortCircuits(op, o) ==
    \/ op \in {"map", "mapSuccess"} /\ ~isSuccess(o)
    \/ op = "mapFailure" /\ ~isFailure(o)
    \/ op = "mapNone" /\ ~isNone(o)

\* the completion of the operation of the same name on the RepositoryReturn o
SyncMap(op, o, func) ==
    CASE op = "map" -> map(o, func)
      [] op = "mapSuccess" -> mapSuccess(o, func)
      [] op = "mapFailure" -> mapFailure(o, func)
      [] op = "mapNone" -> mapNone(o, func)

\* C16 (checked under SpecAsync): map and mapSuccess on a Failure or None,
\* mapFailure on a Success or None and mapNone on a Success or Failure
\* return the receiver's tag and payload and never invoke the function
\* given; the same operations of AsyncRepositoryReturn settle to the
\* RepositoryReturn the promise was fulfilled with, without invoking it.
C16_ShortCircuit ==
    \A i \in DOMAIN aops :
        (Source(i).state = "fulfilled" /\ ShortCircuits(aops[i].op, Source(i).v)) =>
            LET o == Source(i).v
                func == aops[i].args[1]
            IN  /\ SyncMap(aops[i].op, o, func).v = o
                /\ SyncMap(aops[i].op, o, func).calls = <<>>
                /\ ~GivenElsewhere(func, i) => \A c \in Range(hcalls) : c.fn # func
                /\ Result(i).state # "pending" =>
                       /\ Result(i).state = "fulfilled"
                       /\ Result(i).v = o

C16_Witness ==
    \E i \in DOMAIN aops :
        /\ aops[i].op = "mapFailure"
        /\ Source(i).state = "fulfilled"
        /\ Source(i).v = repositorySuccess(Arr(<<Num(1), Num(0)>>))
        /\ hcalls = <<>>
        /\ Result(i).state = "fulfilled"
        /\ Result(i).v = Source(i).v

SuccessLaneOps == {"map", "mapElements", "mapFirst", "filter"}

\* C17 as stated (checked under Spec): on a Success receiver and with a
\* function that does not throw, map, mapElements, mapFirst and filter
\* never return a Failure.
C17_NoFailureWithoutThrow ==
    (/\ last.op \in SuccessLaneOps
     /\ isSuccess(last.recv)
     /\ last.args[1].kind # "throw") => ~isFailure(last.c.v)

\* unionResolve turns v into a Failure
ResolvesToFailure(v) == InstanceOfError(v) \/ (isRR(v) /\ isFailure(v))

\* the function given to map or mapFirst is called on the receiver and
\* returns an error or a Failure
ReturnsFailure(op, this, func) ==
    \/ op = "map" /\ ResolvesToFailure(ApplyUser(func, <<this.value>>).v)
    \/ /\ op = "mapFirst"
       /\ Len(this.value.els) > 0
       /\ ResolvesToFailure(ApplyUser(func, <<this.value.els[1]>>).v)

\* C17, amended (checked under Spec): on a Success receiver and with a
\* function that does not throw, mapElements and filter never return a
\* Failure, and map and mapFirst return a Failure exactly when the function
\* returns an error or a Failure, which unionResolve makes the result.
C17_FailureOnlyIfReturned ==
    (/\ last.op \in SuccessLaneOps
     /\ isSuccess(last.recv)
     /\ last.args[1].kind # "throw") =>
        (isFailure(last.c.v) <=> ReturnsFailure(last.op, last.recv, last.args[1]))

C17_Witness ==
    /\ last.op = "mapFirst"
    /\ isSuccess(last.recv)
    /\ last.args = <<Const(Err("E2"))>>
    /\ last.c.v = repositoryFailure(Err("E2"))

(***************************************************************************)
(* SpecNormal: the operations of Spec other than match, applied one after  *)
(* the other to a RepositoryReturn that unionResolve made of a raw value.  *)
(***************************************************************************)
InitNormal ==
    /\ rr \in {unionResolve(x) : x \in RawValues \ Constructed}
    /\ last = [op |-> "new", recv |-> Null, args |-> <<>>, c |-> NoCompletion]
    /\ nops = 0
    /\ NoAsync

NextNormal ==
    \/ Map
    \/ MapSuccess
    \/ MapFailure
    \/ MapNone
    \/ MapElements
    \/ MapFirst
    \/ Filter
    \/ NoneAsFailure
    \/ NoneAsSuccess
    \/ FailureAsNone

SpecNormal == InitNormal /\ [][NextNormal]_vars

\* C18: no RepositoryReturn reached from unionResolve of a raw value by
\* map, mapSuccess, mapFailure, mapNone, mapElements, mapFirst, filter,
\* noneAsFailure, noneAsSuccess and failureAsNone is a Success holding an
\* empty sequence.
C18_NoEmptySuccess ==
    ~(isSuccess(rr) /\ rr.value = Arr(<<>>))

(***************************************************************************)
(* State conversions                                                       *)
(***************************************************************************)
\* C19 (checked under Spec): noneAsFailure(err) returns Failure(err) on
\* None, noneAsSuccess(seq) returns Success(seq) on None and failureAsNone()
\* returns None on Failure; a receiver in one of the two other states is
\* returned with its tag and payload unchanged, and no conversion throws.
C19_StateConversions ==
    /\ last.op \in {"noneAsFailure", "noneAsSuccess", "failureAsNone"} =>
           last.c.type = "return"
    /\ last.op = "noneAsFailure" =>
           last.c.v = IF last.recv._tag = "none"
                      THEN [k |-> "rr", _tag |-> "failure", value |-> last.args[1]]
                      ELSE last.recv
    /\ last.op = "noneAsSuccess" =>
           last.c.v = IF last.recv._tag = "none"
                      THEN [k |-> "rr", _tag |-> "success", value |-> last.args[1]]
                      ELSE last.recv
    /\ last.op = "failureAsNone" =>
           last.c.v = IF last.recv._tag = "failure"
                      THEN [k |-> "rr", _tag |-> "none", value |-> Null]
                      ELSE last.recv

\* repositoryFailure(E).noneAsFailure(E2) returned Failure(E)
C19_Witness ==
    /\ last.op = "noneAsFailure"
    /\ last.recv = repositoryFailure(Err("E"))
    /\ last.args = <<Err("E2")>>
    /\ last.c.v = repositoryFailure(Err("E"))

(***************************************************************************)
(* Conversions to Result (checked under SpecConvert)                       *)
(***************************************************************************)
\* the Result the conversion of recv is to give when whenNone returns
Converts(recv, whenNone) ==
    IF recv._tag = "success" THEN success(recv.value)
    ELSE IF recv._tag = "failure" THEN failure(recv.value)
    ELSE LET r == whenNone.v
         IN  IF r.k = "error" THEN failure(r)
             ELSE IF r.k = "array" THEN success(r)
             ELSE success(Arr(<<r>>))

\* whenNone is not evaluated on Success and Failure, once on None
WhenNoneCalls ==
    last.c.calls = IF last.recv._tag = "none"
                   THEN <<[fn |-> last.args[1], args |-> <<>>]>>
                   ELSE <<>>

Converting == last.recv._tag # "none" \/ last.args[1].kind = "const"

\* asResult(whenNone) is success(seq) on Success(seq) and failure(e) on
\* Failure(e) with whenNone not evaluated; on None whenNone is evaluated once
\* and its result r gives failure(r) if an error, success(r) if a sequence,
\* success([r]) otherwise
C20_AsResult ==
    last.op = "asResult" =>
        /\ WhenNoneCalls
        /\ Converting =>
               /\ last.c.type = "return"
               /\ last.c.v = Converts(last.recv, last.args[1])

\* asFirstElementResult(whenNone) is the failure of asResult(whenNone), or
\* success of element zero of the sequence of its success
C20_AsFirstElement ==
    last.op = "asFirstElementResult" =>
        /\ WhenNoneCalls
        /\ Converting =>
               LET r == Converts(last.recv, last.args[1])
               IN  /\ last.c.type = "return"
                   /\ last.c.v = IF r._tag = "failure" THEN r
                                 ELSE success(ElementZero(r.value))

\* element zero of the Success the conversion starts from is itself an
\* object tagged success or failure
TaggedElementZero ==
    /\ last.recv._tag = "success"
    /\ Len(last.recv.value.els) > 0
    /\ isResult(last.recv.value.els[1])

\* asFirstElementResult gives success of element zero whenever element zero
\* is not such an object
C20_AsFirstElementUntagged ==
    (last.op = "asFirstElementResult" /\ TaggedElementZero) \/ C20_AsFirstElement

\* C20: asResult(whenNone) maps Success(seq) to success(seq) and Failure(e)
\* to failure(e) without evaluating whenNone; on None it evaluates whenNone
\* exactly once and returns failure(r) if the result r is an error,
\* success(r) if r is a sequence and success([r]) for a bare value r;
\* asFirstElementResult(whenNone) yields the same failure, or success of
\* element zero of that sequence.
C20_ResultConversions == C20_AsResult /\ C20_AsFirstElement

(***************************************************************************)
(* SpecElements: mapElements called on an AsyncRepositoryReturn, and       *)
(* mapElements applied to the RepositoryReturn its promise is to be        *)
(* fulfilled with.                                                         *)
(***************************************************************************)
MapElementsFuncs == {Identity, Inc, Const(Err("E2")), Throw(Err("boom"))}

CallMapElementsOf ==
    \E this \in ArrIds, func \in MapElementsFuncs :
        Called("mapElements", this, <<func>>, arrMapElements(Machine, this, func))

SyncMapElements ==
    /\ promises[1].plan.how = "fulfil"
    /\ \E func \in MapElementsFuncs :
          last' = [op |-> "mapElements", recv |-> promises[1].plan.v, args |-> <<func>>,
                   c |-> mapElements(promises[1].plan.v, func)]
    /\ UNCHANGED <<rr, heap, nops, promises, reactions, jobs, hcalls, aops, settles>>

NextElements ==
    \/ Settle
    \/ RunJob
    \/ CallMapElementsOf
    \/ SyncMapElements

SpecElements == InitAsync /\ [][NextElements]_vars

\* Success([x1..xn]) with n >= 1
NonEmptySuccess(o) == isSuccess(o) /\ Len(o.value.els) >= 1

\* Success([f(x1)..f(xn)]) for Success([x1..xn]), and o itself for None and Failure
Elementwise(o, f) ==
    IF isSuccess(o)
    THEN [k |-> "rr", _tag |-> "success",
          value |-> Arr([j \in DOMAIN o.value.els |-> ApplyUser(f, <<o.value.els[j]>>).v])]
    ELSE o

\* calls is one call of f on each element of o, in order
OncePerElement(calls, o, f) ==
    /\ Len(calls) = Len(o.value.els)
    /\ \A j \in DOMAIN calls : calls[j].fn = f /\ calls[j].args[1] = o.value.els[j]

\* C21: mapElements(f) on Success([x1..xn]), n >= 1, returns
\* Success([f(x1)..f(xn)]), f applied once to each element in order; on None
\* and Failure it returns the same state without invoking f; mapElements on
\* the AsyncRepositoryReturn settles to the same result.
C21_MapElements ==
    /\ last.op = "mapElements" =>
           LET o == last.recv
               f == last.args[1]
           IN  /\ (NonEmptySuccess(o) /\ f.kind # "throw") =>
                      /\ last.c.type = "return"
                      /\ last.c.v = Elementwise(o, f)
                      /\ OncePerElement(last.c.calls, o, f)
               /\ ~isSuccess(o) =>
                      /\ last.c.type = "return"
                      /\ last.c.v = o
                      /\ last.c.calls = <<>>
    /\ \A i \in DOMAIN aops :
           (aops[i].op = "mapElements" /\ Source(i).state = "fulfilled") =>
               LET o == Source(i).v
                   f == aops[i].args[1]
               IN  /\ (~isSuccess(o) /\ Len(aops) = 1) => hcalls = <<>>
                   /\ (Result(i).state # "pending"
                          /\ (NonEmptySuccess(o) \/ ~isSuccess(o))
                          /\ f.kind # "throw") =>
                          /\ Result(i).state = "fulfilled"
                          /\ Result(i).v = Elementwise(o, f)
                          /\ (NonEmptySuccess(o) /\ Len(aops) = 1) =>
                                 OncePerElement(hcalls, o, f)

C21_Witness ==
    /\ last.op = "mapElements"
    /\ last.recv = repositorySuccess(Arr(<<Num(1), Num(0)>>))
    /\ last.args = <<Inc>>
    /\ last.c.v = repositorySuccess(Arr(<<Num(2), Num(1)>>))
    /\ \E i \in DOMAIN aops :
           /\ aops[i].op = "mapElements"
           /\ aops[i].args = <<Inc>>
           /\ Result(i).state = "fulfilled"
           /\ Result(i).v = repositorySuccess(Arr(<<Num(2), Num(1)>>))
           /\ Len(hcalls) = 2

(***************************************************************************)
(* unionResolve applied to its own result (checked under Spec)             *)
(***************************************************************************)
ExactlyOneState(o) ==
    /\ isRR(o)
    /\ Cardinality({t \in {"success", "failure", "none"} : o._tag = t}) = 1
    /\ Cardinality({b \in {isSuccess(o), isFailure(o), isNone(o)} : b}) = 1
    /\ isSuccess(o) \/ isFailure(o) \/ isNone(o)

\* C22: for every input x, null, error, zero, empty and non-empty sequence,
\* bare value or RepositoryReturn, unionResolve(unionResolve(x)) has the tag
\* and payload of unionResolve(x), which is exactly one of None, Failure and
\* Success.
C22_UnionResolveIdempotent ==
    last.op = "unionResolve" =>
        /\ last.c.type = "return"
        /\ ExactlyOneState(last.c.v)
        /\ unionResolve(last.c.v) = last.c.v
        /\ unionResolve(unionResolve(last.args[1])) = unionResolve(last.args[1])

\* unionResolve was applied to None, the result of unionResolve(null)
C22_Witness ==
    /\ last.op = "unionResolve"
    /\ last.args = <<unionResolve(Null)>>
    /\ last.c.v = repositoryNone

(***************************************************************************)
(* SpecObserve: up to MaxObservations operations are called, at any time,  *)
(* on one and the same AsyncRepositoryReturn; nops counts those called     *)
(* once its wrapped computation has settled.                               *)
(***************************************************************************)
Ob(op, args) == [op |-> op, args |-> args]

Observations ==
    {Ob(op, <<>>) : op \in {"toPromise", "value", "isSuccess", "isFailure", "isNone",
                            "failureAsNone"}}
        \cup {Ob("match", <<Const(Str("n")), Identity, Identity>>),
              Ob("then", <<Identity, NoCallback>>),
              Ob("catch", <<Const(Num(1))>>),
              Ob("map", <<Identity>>),
              Ob("mapFailure", <<Identity>>),
              Ob("mapNone", <<Const(Str("n"))>>),
              Ob("mapElements", <<Identity>>),
              Ob("mapFirst", <<Identity>>),
              Ob("filter", <<Const(Bool(TRUE))>>),
              Ob("noneAsFailure", <<Err("E2")>>),
              Ob("noneAsSuccess", <<Arr(<<Num(1)>>)>>)}

Observe ==
    \E ob \in Observations :
        /\ jobs = <<>>
        /\ Len(aops) < MaxObservations
        /\ LET M == Perform(Machine, 1, ob.op, ob.args)
           IN  /\ Becomes(M)
               /\ aops' = Append(aops, [op |-> ob.op, recv |-> 1, args |-> ob.args,
                                        result |-> LastId(M)])
        /\ nops' = IF promises[1].state # "pending" THEN nops + 1 ELSE nops
        /\ UNCHANGED <<settles, rr, heap, last>>

NextObserve ==
    \/ Settle
    \/ RunJob
    \/ Observe

SpecObserve == InitAsync /\ [][NextObserve]_vars

\* the argument lists with which a handler is shown the RepositoryReturn o,
\* its payload or its elements
ViewsOf(o) ==
    {<<>>, <<o>>, <<o.value>>}
        \cup (IF isSuccess(o)
              THEN UNION {{<<o.value.els[j]>>, <<o.value.els[j], Num(j - 1), o.value>>} :
                          j \in DOMAIN o.value.els}
              ELSE {})

\* C23: once the wrapped computation has settled, every observation of the
\* instance, in any number and order, sees the same settled
\* RepositoryReturn: operations applied to the instance change nothing of
\* what a later observer sees, and the wrapped computation settles once.
C23_SettledIsFixed ==
    LET src == promises[1]
    IN  /\ src.state # "pending" =>
               /\ src.state = SettledAs(src.plan.how)
               /\ src.v = src.plan.v
        /\ Cardinality({n \in DOMAIN settles : settles[n] = 1}) <= 1
        /\ \A i \in DOMAIN aops : \A j \in DOMAIN aops :
               (/\ aops[i].op = aops[j].op
                /\ aops[i].args = aops[j].args
                /\ Result(i).state # "pending"
                /\ Result(j).state # "pending") =>
                   /\ Result(i).state = Result(j).state
                   /\ Result(i).v = Result(j).v
        /\ src.plan.how = "fulfil" =>
               LET o == src.plan.v
               IN  /\ \A c \in Range(hcalls) : c.args \in ViewsOf(o)
                   /\ \A i \in DOMAIN aops :
                          Result(i).state # "pending" =>
                              /\ Result(i).state = "fulfilled"
                              /\ aops[i].op \in {"toPromise", "catch", "then"} =>
                                     Result(i).v = o
                              /\ aops[i].op = "value" => Result(i).v = o.value
                              /\ aops[i].op = "isSuccess" =>
                                     Result(i).v = Bool(o._tag = "success")
                              /\ aops[i].op = "isFailure" =>
                                     Result(i).v = Bool(o._tag = "failure")
                              /\ aops[i].op = "isNone" =>
                                     Result(i).v = Bool(o._tag = "none")
                              /\ aops[i].op = "then" =>
                                     [fn |-> Identity, args |-> <<o>>] \in Range(hcalls)

\* failureAsNone, then toPromise, both called on the instance after it
\* settled to Failure(E): the first gave None, the second still sees Failure(E)
C23_Witness ==
    /\ nops = 2
    /\ Len(aops) = 2
    /\ promises[1].v = repositoryFailure(Err("E"))
    /\ aops[1].op = "failureAsNone"
    /\ Result(1).state = "fulfilled"
    /\ Result(1).v = repositoryNone
    /\ aops[2].op = "toPromise"
    /\ Result(2).state = "fulfilled"
    /\ Result(2).v = repositoryFailure(Err("E"))

(***************************************************************************)
(* SpecChain: a.step1(h1).step2(h2), the steps being then, match and the   *)
(* map family; h1 returns, throws, or returns a deferred value that        *)
(* settles later; the calls are made at any time.                          *)
(***************************************************************************)
ChainHandlers ==
    {Const(Num(0)), Throw(Err("boom")),
     Defer("fulfil", Num(0), FALSE), Defer("reject", Err("late"), FALSE)}

H2 == Const(Str("h2"))

\* the steps given the handler h
StepsWith(h) ==
    {Ob("then", <<h, NoCallback>>), Ob("match", <<h, h, h>>)}
        \cup {Ob(op, <<h>>) :
                op \in {"map", "mapFailure", "mapNone", "mapElements", "mapFirst", "filter"}}

Step(this, ob) ==
    /\ jobs = <<>>
    /\ LET M == Perform(Machine, this, ob.op, ob.args)
       IN  /\ Becomes(M)
           /\ aops' = Append(aops, [op |-> ob.op, recv |-> this, args |-> ob.args,
                                    result |-> LastId(M)])
    /\ UNCHANGED <<settles, rr, heap, last, nops>>

FirstStep ==
    /\ aops = <<>>
    /\ \E h1 \in ChainHandlers : \E ob \in StepsWith(h1) : Step(1, ob)

SecondStep ==
    /\ Len(aops) = 1
    /\ \E ob \in StepsWith(H2) : Step(aops[1].result, ob)

NextChain ==
    \/ Settle
    \/ RunJob
    \/ FirstStep
    \/ SecondStep

SpecChain == InitAsync /\ [][NextChain]_vars

\* the deferred values returned by handlers so far have all settled
DeferredAllSettled ==
    \A p \in DOMAIN promises :
        (p > 1 /\ promises[p].plan.how # "none") => promises[p].state # "pending"

\* h2 is invoked after every call of h1 and once the deferred values h1
\* returned have settled
AfterFirstStep ==
    \A j \in DOMAIN hcalls :
        hcalls[j].fn = H2 =>
            /\ \A n \in DOMAIN hcalls : hcalls[n].fn # H2 => n < j
            /\ DeferredAllSettled

\* the first step is mapElements or filter, which store or test what the
\* function returned without awaiting it
UnawaitedFirstStep == aops # <<>> /\ aops[1].op \in {"mapElements", "filter"}

\* the ordering holds in every chain whose first step is then, match, map,
\* mapFailure, mapNone or mapFirst
C24_AwaitingStepsOrdered ==
    UnawaitedFirstStep \/ (AfterFirstStep /\ (hcalls # <<>> => promises[1].state # "pending"))

\* C24: in a chain a.step1(h1).step2(h2) of then, match and map-family
\* steps, no handler is invoked before the wrapped computation of a has
\* settled, and h2 is not invoked until h1 has returned and any deferred
\* value h1 returned has settled.
C24_ChainOrdered ==
    /\ hcalls # <<>> => promises[1].state # "pending"
    /\ AfterFirstStep

(***************************************************************************)
(* SpecHeap: RepositoryReturns and arrays as objects in memory.  heap[id]  *)
(* is the object id; a RepositorySuccess holds a reference to its array.   *)
(* An operation yields [type, v, m]: what it returned or threw, and the    *)
(* memory it left.  rr keeps the RepositoryReturn o as it was constructed. *)
(***************************************************************************)
Ref(id) == [k |-> "ref", id |-> id]
IsRef(x) == x.k = "ref"

\* new: the object is added to the memory and its reference returned
New(H, obj) == Returned(Append(H, obj), Ref(Len(H) + 1))
ThrownAt(H, v) == [type |-> "throw", v |-> v, m |-> H]

IsArrayAt(H, x) == IsRef(x) /\ H[x.id].k = "array"

isRRAt(H, obj) ==
    /\ IsRef(obj)
    /\ "_tag" \in DOMAIN H[obj.id]
    /\ H[obj.id]._tag \in {"success", "failure", "none"}

\* this.value = Array.isArray(value) ? value : [value]
RepositorySuccessAt(H, value) ==
    IF IsArrayAt(H, value)
    THEN New(H, [k |-> "rr", _tag |-> "success", value |-> value])
    ELSE New(Append(H, Arr(<<value>>)),
             [k |-> "rr", _tag |-> "success", value |-> Ref(Len(H) + 1)])

RepositoryFailureAt(H, value) == New(H, [k |-> "rr", _tag |-> "failure", value |-> value])

RepositoryNoneAt(H) == New(H, [k |-> "rr", _tag |-> "none", value |-> Null])

unionResolveAt(H, obj) ==
    IF isRRAt(H, obj) THEN Returned(H, obj)
    ELSE IF (Truthy(obj) \/ "number" = TypeOf(obj))
            /\ (~IsArrayAt(H, obj) \/ 0 < Len(H[obj.id].els))
         THEN IF InstanceOfError(obj) THEN RepositoryFailureAt(H, obj)
                                      ELSE RepositorySuccessAt(H, obj)
         ELSE RepositoryNoneAt(H)

\* a caller-supplied function: it writes nothing, and an array it returns
\* is a new one
ApplyUserAt(H, h, args) ==
    LET c == ApplyUser(h, args)
    IN  IF c.type = "throw" THEN ThrownAt(H, c.v)
        ELSE IF IsArray(c.v) THEN New(H, c.v)
        ELSE Returned(H, c.v)

\* s => repositorySuccess(s.map(func)): map builds a new array
mapElementsBodyAt(H, func, s) ==
    LET c == ArrayMap(H[s.id], func)
    IN  IF c.type = "throw" THEN ThrownAt(H, c.v)
        ELSE RepositorySuccessAt(Append(H, c.v), Ref(Len(H) + 1))

\* s => s.length > 0 ? func(s[0]) : []
mapFirstBodyAt(H, func, s) ==
    IF Len(H[s.id].els) > 0 THEN ApplyUserAt(H, func, <<H[s.id].els[1]>>)
    ELSE New(H, Arr(<<>>))

\* a filter that removes the elements from the array it was given
filterBodyAt_inPlace(H, func, s) ==
    LET c == ArrayFilter(H[s.id], func)
    IN  IF c.type = "throw" THEN ThrownAt(H, c.v)
        ELSE Returned([H EXCEPT ![s.id] = c.v], s)

\* s => s.filter(func): filter builds a new array
filterBodyAt(H, func, s) ==
    LET c == ArrayFilter(H[s.id], func)
    IN  IF c.type = "throw" THEN ThrownAt(H, c.v) ELSE New(H, c.v)

ApplyAt(H, h, args) ==
    CASE h.kind = "repositoryNone" -> RepositoryNoneAt(H)
      [] h.kind = "repositoryFailure" -> RepositoryFailureAt(H, Arg(args, 1))
      [] h.kind = "repositorySuccess" -> RepositorySuccessAt(H, Arg(args, 1))
      [] h.kind = "mapElements" -> mapElementsBodyAt(H, h.func, Arg(args, 1))
      [] h.kind = "mapFirst" -> mapFirstBodyAt(H, h.func, Arg(args, 1))
      [] h.kind = "filter" -> filterBodyAt(H, h.func, Arg(args, 1))
      [] OTHER -> ApplyUserAt(H, h, args)

\* try { return unionResolve(handler(this.value)) }
\* catch (err) { return repositoryFailure(err) }
matchResultAt(r) ==
    IF r.type = "throw" THEN RepositoryFailureAt(r.m, r.v) ELSE unionResolveAt(r.m, r.v)

matchAt(H, this, onNone, onFailure, onSuccess) ==
    matchResultAt(
        CASE H[this.id]._tag = "none" -> ApplyAt(H, onNone, <<>>)
          [] H[this.id]._tag = "success" -> ApplyAt(H, onSuccess, <<H[this.id].value>>)
          [] H[this.id]._tag = "failure" -> ApplyAt(H, onFailure, <<H[this.id].value>>))

RECURSIVE flattenAt(_, _)
flattenAt(H, this) ==
    IF isRRAt(H, H[this.id].value) THEN flattenAt(H, H[this.id].value)
    ELSE IF H[this.id]._tag = "success" THEN RepositorySuccessAt(H, H[this.id].value)
    ELSE IF H[this.id]._tag = "none" THEN RepositoryNoneAt(H)
    ELSE RepositoryFailureAt(H, H[this.id].value)

\* the Result of ret, what whenNone() returned
whenNoneResultAt(r) ==
    IF r.type = "throw" THEN r
    ELSE IF InstanceOfError(r.v) THEN New(r.m, failure(r.v))
    ELSE IF IsArrayAt(r.m, r.v) THEN New(r.m, success(r.v))
    ELSE New(Append(r.m, Arr(<<r.v>>)), success(Ref(Len(r.m) + 1)))

asResultAt(H, this, whenNone) ==
    IF H[this.id]._tag = "none" THEN whenNoneResultAt(ApplyUserAt(H, whenNone, <<>>))
    ELSE IF H[this.id]._tag = "failure" THEN New(H, failure(H[this.id].value))
    ELSE New(H, success(H[this.id].value))

\* the method op of the RepositoryReturn this, called with args
OpAt(H, this, op, args) ==
    CASE op \in {"success", "failure", "none"} -> Returned(H, Bool(H[this.id]._tag = op))
      [] op = "match" -> matchAt(H, this, args[1], args[2], args[3])
      [] op \in {"map", "mapSuccess"} ->
            matchAt(H, this, RepositoryNoneFn, RepositoryFailureFn, args[1])
      [] op = "mapFailure" -> matchAt(H, this, RepositoryNoneFn, args[1], RepositorySuccessFn)
      [] op = "mapNone" -> matchAt(H, this, args[1], RepositoryFailureFn, RepositorySuccessFn)
      [] op = "mapElements" ->
            matchAt(H, this, RepositoryNoneFn, RepositoryFailureFn, MapElementsFn(args[1]))
      [] op = "mapFirst" ->
            matchAt(H, this, RepositoryNoneFn, RepositoryFailureFn, MapFirstFn(args[1]))
      [] op = "filter" ->
            matchAt(H, this, RepositoryNoneFn, RepositoryFailureFn, FilterFn(args[1]))
      [] op = "noneAsFailure" ->
            IF H[this.id]._tag = "none" THEN RepositoryFailureAt(H, args[1])
            ELSE Returned(H, this)
      [] op = "noneAsSuccess" ->
            IF H[this.id]._tag = "none"
            THEN RepositorySuccessAt(Append(H, args[1]), Ref(Len(H) + 1))
            ELSE Returned(Append(H, args[1]), this)
      [] op = "failureAsNone" ->
            IF H[this.id]._tag = "failure" THEN RepositoryNoneAt(H) ELSE Returned(H, this)
      [] op = "flatten" -> flattenAt(H, this)
      [] op = "asResult" -> asResultAt(H, this, args[1])

\* the RepositoryReturn at ref, read from the memory H
ValueAt(H, ref) ==
    [k |-> "rr", _tag |-> H[ref.id]._tag,
     value |-> IF IsRef(H[ref.id].value) THEN H[H[ref.id].value.id] ELSE H[ref.id].value]

\* the memory after repositoryNone(), repositoryFailure(e), repositorySuccess(s):
\* the RepositoryReturn constructed is the object allocated last
ConstructedHeaps ==
    {RepositoryNoneAt(<<>>).m}
        \cup {RepositoryFailureAt(<<>>, e).m : e \in Errors}
        \cup {RepositorySuccessAt(<<a>>, Ref(1)).m : a \in Arrays}
        \cup {RepositorySuccessAt(<<>>, x).m : x \in Scalars}

InitHeap ==
    /\ heap \in ConstructedHeaps
    /\ rr = ValueAt(heap, Ref(Len(heap)))
    /\ last = [op |-> "new", recv |-> Null, args |-> <<>>, c |-> NoCompletion]
    /\ nops = 0
    /\ promises = <<>>
    /\ reactions = <<>>
    /\ jobs = <<>>
    /\ hcalls = <<>>
    /\ aops = <<>>
    /\ settles = <<>>

\* the RepositoryReturn o that was constructed first
O == Ref(IF isSuccess(rr) THEN 2 ELSE 1)

\* o and the RepositoryReturn the last operation returned
Receivers ==
    {O} \cup (IF last.c.type = "return" /\ isRRAt(heap, last.c.v) /\ last.c.v.k = "ref"
              THEN {last.c.v} ELSE {})

HeapOps ==
    {Ob(op, <<>>) : op \in {"success", "failure", "none", "failureAsNone", "flatten"}}
        \cup {Ob("match", <<Const(Num(0)), Identity, Identity>>),
              Ob("match", <<Throw(Err("boom")), Const(Arr(<<>>)), Const(Num(0))>>),
              Ob("map", <<Identity>>),
              Ob("mapFailure", <<Const(Num(0))>>),
              Ob("mapNone", <<Const(Arr(<<>>))>>),
              Ob("mapElements", <<Inc>>),
              Ob("mapElements", <<Throw(Err("boom"))>>),
              Ob("mapFirst", <<Inc>>),
              Ob("filter", <<IsPositive>>),
              Ob("filter", <<Const(Bool(TRUE))>>),
              Ob("noneAsFailure", <<Err("E2")>>),
              Ob("noneAsSuccess", <<Arr(<<Num(1)>>)>>),
              Ob("asResult", <<Const(Num(0))>>)}

\* an operation is applied to o or to what the last operation returned
HeapOp ==
    \E this \in Receivers, ob \in HeapOps :
        /\ nops < MaxOps
        /\ nops' = nops + 1
        /\ LET r == OpAt(heap, this, ob.op, ob.args)
           IN  /\ heap' = r.m
               /\ last' = [op |-> ob.op, recv |-> this, args |-> ob.args,
                           c |-> [type |-> r.type, v |-> r.v, calls |-> <<>>]]
        /\ UNCHANGED <<rr, asyncVars>>

NextHeap ==
    \/ HeapOp

SpecHeap == InitHeap /\ [][NextHeap]_vars

\* no operation writes to an object that exists: objects are only added
NoWrite == [][\A id \in DOMAIN heap : heap'[id] = heap[id]]_vars

\* C25: no operation of RepositoryReturn, predicates, match, the map
\* family, filter, the state conversions, flatten and asResult, changes the
\* tag or the payload of its receiver: after any sequence of operations
\* applied to o, o has the tag and the payload it was constructed with.
C25_Immutable ==
    /\ ValueAt(heap, O) = rr
    /\ last.op # "new" => "_tag" \in DOMAIN heap[last.recv.id]

\* filter removed an element: the result holds [1], o still [1, 0]
C25_Witness ==
    /\ rr = repositorySuccess(Arr(<<Num(1), Num(0)>>))
    /\ last.op = "filter"
    /\ last.recv = O
    /\ last.args = <<IsPositive>>
    /\ last.c.type = "return"
    /\ ValueAt(heap, last.c.v) = repositorySuccess(Arr(<<Num(1)>>))

(***************************************************************************)
(* Further claims about the synchronous RepositoryReturn, under Spec       *)
(***************************************************************************)
\* an Error, or the value a handler threw, which match's catch wraps
ErrorValue(v) == InstanceOfError(v) \/ v \in Thrown

PayloadOfTag(o) ==
    /\ isNone(o) => o.value = Null
    /\ isFailure(o) => ErrorValue(o.value) /\ ~IsArray(o.value)
    /\ isSuccess(o) => IsArray(o.value)

\* C26: every RepositoryReturn reachable through the constructors,
\* unionResolve and any sequence of operations has exactly one of the three
\* tags, exactly one of isSuccess, isFailure, isNone is true of it, and the
\* tag determines the payload: None carries null, Failure one error value,
\* Success a sequence.
C26_TagDeterminesPayload ==
    /\ ExactlyOneState(rr)
    /\ PayloadOfTag(rr)
    /\ last.c.type = "return" => ExactlyOneState(last.c.v) /\ PayloadOfTag(last.c.v)

\* after MaxOps operations, the last one a mapFirst whose function threw,
\* the RepositoryReturn is a Failure holding what was thrown
C26_Witness ==
    /\ nops = MaxOps
    /\ last.op = "mapFirst"
    /\ last.args[1].kind = "throw"
    /\ isSuccess(last.recv)
    /\ isFailure(rr)
    /\ rr.value = last.args[1].v

\* a value that is no sequence, no error, no RepositoryReturn and not absent
PlainValue(v) == v.k \in {"number", "boolean", "string"}

\* mapFirst(f) on a non-empty Success: f once, on x1 only, and the result is
\* unionResolve(f(x1)); on an empty Success None; None and Failure pass
\* through; f is not invoked in these cases
MapFirstCalls ==
    last.op = "mapFirst" =>
        LET this == last.recv
            f == last.args[1]
        IN  /\ (isSuccess(this) /\ Len(this.value.els) > 0) =>
                   /\ last.c.calls = <<[fn |-> f, args |-> <<this.value.els[1]>>]>>
                   /\ f.kind # "throw" =>
                          /\ last.c.type = "return"
                          /\ last.c.v = unionResolve(ApplyUser(f, <<this.value.els[1]>>).v)
            /\ (isSuccess(this) /\ Len(this.value.els) = 0) =>
                   /\ last.c.type = "return"
                   /\ isNone(last.c.v)
                   /\ last.c.calls = <<>>
            /\ ~isSuccess(this) =>
                   /\ last.c.type = "return"
                   /\ last.c.v = this
                   /\ last.c.calls = <<>>

\* when f(x1) is a plain value the result is the singleton Success([f(x1)])
MapFirstPlain ==
    (/\ last.op = "mapFirst"
     /\ isSuccess(last.recv)
     /\ Len(last.recv.value.els) > 0
     /\ last.args[1].kind # "throw"
     /\ PlainValue(ApplyUser(last.args[1], <<last.recv.value.els[1]>>).v)) =>
        last.c.v = repositorySuccess(Arr(<<ApplyUser(last.args[1], <<last.recv.value.els[1]>>).v>>))

\* C27: mapFirst(f) on a Success with a non-empty sequence [x1, x2, ...]
\* invokes f exactly once, on x1 only, and returns unionResolve(f(x1)) alone,
\* for a plain value the singleton Success([f(x1)]); on a Success with an
\* empty sequence it returns None without invoking f; None and Failure pass
\* through without invoking f.
C27_MapFirst == MapFirstCalls /\ MapFirstPlain

\* mapFirst(x => x + 1) on Success([0, 1]) returned Success([1])
C27_MapFirstRan ==
    /\ last.op = "mapFirst"
    /\ last.recv = repositorySuccess(Arr(<<Num(0), Num(1)>>))
    /\ last.args = <<Inc>>
    /\ last.c.v = repositorySuccess(Arr(<<Num(1)>>))

\* pred returns a truthy value for the element x
Satisfies(pred, x) == Truthy(ApplyUser(pred, <<x>>).v)

\* the elements of seq that satisfy pred, in their order
Kept(pred, seq) == SelectSeq(seq, LAMBDA x : Satisfies(pred, x))

\* C28: filter(pred) on Success(seq) returns Success holding exactly the
\* elements of seq that satisfy pred, in their original order, when at least
\* one does, and None, not a Success with an empty sequence, when no element
\* does; None and Failure are returned with the same state and pred is not
\* invoked.
C28_Filter ==
    last.op = "filter" =>
        LET this == last.recv
            pred == last.args[1]
        IN  /\ (isSuccess(this) /\ pred.kind # "throw") =>
                   /\ last.c.type = "return"
                   /\ Len(last.c.calls) = Len(this.value.els)
                   /\ IF Kept(pred, this.value.els) # <<>>
                      THEN last.c.v = repositorySuccess(Arr(Kept(pred, this.value.els)))
                      ELSE last.c.v = repositoryNone
            /\ ~isSuccess(this) =>
                   /\ last.c.type = "return"
                   /\ last.c.v = this
                   /\ last.c.calls = <<>>

\* filter(x => x > 0) on Success([0, 1]) returned Success([1]), and on
\* Success([0]) it returned None
C28_Witness ==
    /\ last.op = "filter"
    /\ last.args = <<IsPositive>>
    /\ \/ /\ last.recv = repositorySuccess(Arr(<<Num(0), Num(1)>>))
          /\ last.c.v = repositorySuccess(Arr(<<Num(1)>>))
       \/ /\ last.recv = repositorySuccess(Arr(<<Num(0)>>))
          /\ last.c.v = repositoryNone

(***************************************************************************)
(* Further claims about the AsyncRepositoryReturn                          *)
(***************************************************************************)
CalledWith(h) == {c \in Range(hcalls) : c.fn = h}

\* func threw, or returned a deferred value that rejects
Fails(h) == h.kind = "throw" \/ (h.kind = "defer" /\ h.how = "reject")

\* C29: in one call then(func, callback) at most one of the two handlers is
\* invoked: callback is invoked only when the promise of the receiver itself
\* rejected, and an exception thrown, or a rejected deferred value returned,
\* by func is not passed to callback but makes the new
\* AsyncRepositoryReturn reject.
C29_ThenAtMostOneHandler ==
    \A i \in DOMAIN aops :
        (aops[i].op = "then" /\ Len(aops) = 1 /\ aops[i].args[2] # NoCallback) =>
            LET func == aops[i].args[1]
                callback == aops[i].args[2]
            IN  /\ CalledWith(func) = {} \/ CalledWith(callback) = {}
                /\ CalledWith(callback) # {} => Source(i).state = "rejected"
                /\ (/\ Source(i).state = "fulfilled"
                    /\ Fails(func)
                    /\ Result(i).state # "pending") =>
                       /\ Result(i).state = "rejected"
                       /\ Result(i).v = func.v

\* what the code does: callback is the handler of .catch on the promise of
\* .then(func), so it receives the rejection of the receiver and also what
\* func threw or the rejection of what func returned
ThenCallbackCatchesFunc ==
    \A i \in DOMAIN aops :
        (/\ aops[i].op = "then"
         /\ Len(aops) = 1
         /\ aops[i].args[2] # NoCallback
         /\ Source(i).state = "fulfilled"
         /\ Fails(aops[i].args[1])
         /\ Result(i).state # "pending") =>
            /\ [fn |-> aops[i].args[2], args |-> <<aops[i].args[1].v>>] \in Range(hcalls)
            /\ aops[i].args[2].kind = "const" =>
                   /\ Result(i).state = "fulfilled"
                   /\ Result(i).v = unionResolve(aops[i].args[2].v)

(***************************************************************************)
(* Further claims about the asynchronous all, under SpecAll                *)
(***************************************************************************)
RejectingInputs == {p \in Inputs : promises[p].plan.how = "reject"}
RejectedInputs == {p \in Inputs : promises[p].state = "rejected"}

\* C30: if the promise of any input of the asynchronous all rejects, neither
\* onFailure nor onSuccess is ever invoked, and the promise the chooser
\* returned rejects with that input's error (when several inputs reject,
\* with the error of one of them, the one Promise.all saw first).
C30_RejectedInputRejectsAll ==
    RejectingInputs # {} =>
        /\ hcalls = <<>>
        /\ \A i \in DOMAIN aops :
               Result(i).state # "pending" =>
                   /\ Result(i).state = "rejected"
                   /\ \E p \in RejectedInputs : Result(i).v = promises[p].v
                   /\ Result(i).v = promises[aops[1].result].v

\* two inputs rejected, down2 first, and the chooser's promise is rejected
\* with down2
C30_Witness ==
    /\ NumArgs = 2
    /\ promises[1].state = "rejected"
    /\ promises[1].v = Err("down")
    /\ promises[2].state = "rejected"
    /\ promises[2].v = Err("down2")
    /\ settles = <<2, 1>>
    /\ \E i \in DOMAIN aops :
           /\ aops[i].op = "chooser"
           /\ Result(i).state = "rejected"
           /\ Result(i).v = Err("down2")

====
